---------------------------- MODULE Spec2Model ----------------------------
(***************************************************************************)
(* Sleep-debt tracker: the record store (db/database.py), the debt ledger  *)
(* (etl/sleep_debt.py), the Syncer (etl/garmin_sync.py), the settings      *)
(* orchestrator (backend/main.py) and the background scheduler             *)
(* (etl/auto_sync.py).                                                     *)
(*                                                                         *)
(* Units.  Dates are day numbers.  The time of day is in seconds since     *)
(* midnight.  Requests arrive and sleeps are due on whole minutes; a delay *)
(* too short to reach the next minute (a late wake-up, the time a Syncer   *)
(* call takes) is kept as "just past the minute": second 1 of that minute. *)
(* Hours (sleep, target, debt) are in thousandths of an hour, so the       *)
(* 0.001 h tolerance of update_settings is 1.  The REAL columns' float32   *)
(* rounding is not modelled.                                               *)
(*                                                                         *)
(* Every handler of the application runs on the one asyncio event loop and *)
(* contains no await except the scheduler's asyncio.sleep, so a handler,   *)
(* and a scheduler iteration from its wake-up to its next sleep, is one    *)
(* atomic action.                                                          *)
(***************************************************************************)
EXTENDS Integers, Sequences, FiniteSets, TLC

VARIABLES
    today,               \* date.today()
    clock,               \* datetime.now().time(), seconds since midnight
    sleep_data,          \* table sleep_data: date -> row (real partition)
    example_sleep_data,  \* table example_sleep_data: date -> row
    user_settings,       \* table user_settings, as get_user_settings() reads it
    last_sync,           \* app_metadata['last_sync']: <<>> or <<date>> (the timestamp's day)
    garmin,              \* what Garmin Connect holds: date -> sleep hours
    auto_sync_enabled,   \* _auto_sync_enabled
    auto_sync_task,      \* _auto_sync_task: "none", "created", "sleeping", "done"
    loop_tasks,          \* how many _auto_sync_loop tasks are created and not finished
    cancel_requested,    \* Task.cancel() called and not yet delivered
    wake,                \* <<date, time>> the pending asyncio.sleep ends at
    today_data_found,    \* _today_data_found
    last_check_date,     \* _last_check_date
    lastOp               \* what the last handler or loop step did and returned

vars == <<today, clock, sleep_data, example_sleep_data, user_settings, last_sync,
          garmin, auto_sync_enabled, auto_sync_task, loop_tasks, cancel_requested, wake,
          today_data_found, last_check_date, lastOp>>

storeVars == <<sleep_data, example_sleep_data, user_settings, last_sync, garmin>>
schedVars == <<auto_sync_enabled, auto_sync_task, loop_tasks, cancel_requested, wake,
               today_data_found, last_check_date>>

---------------------------------------------------------------------------
(* Generic helpers *)

Min(a, b) == IF a <= b THEN a ELSE b
Max(a, b) == IF a >= b THEN a ELSE b
Abs(x) == IF x < 0 THEN 0 - x ELSE x

RECURSIVE SumOver(_, _, _)
\* SUM(<field>) over the rows of `table` whose date is in `dates`.
SumOver(table, dates, field) ==
    IF dates = {} THEN 0
    ELSE LET d == CHOOSE x \in dates : TRUE
         IN  table[d][field] + SumOver(table, dates \ {d}, field)

\* INSERT ... ON CONFLICT (date) DO UPDATE of every row of `rows` into `table`.
Upsert(table, rows) ==
    [d \in DOMAIN table \cup DOMAIN rows |->
        IF d \in DOMAIN rows THEN rows[d] ELSE table[d]]

EmptyTable == [d \in {} |-> 0]

---------------------------------------------------------------------------
(* etl/sleep_debt.py *)

calculate_daily_debt(sleep_hours, target_hours) == target_hours - sleep_hours

Row(sleep_hours, target_hours) ==
    [sleep_hours  |-> sleep_hours,
     target_hours |-> target_hours,
     debt         |-> calculate_daily_debt(sleep_hours, target_hours)]

---------------------------------------------------------------------------
(* backend/config.py *)

\* get_target_sleep_hours(): the settings row exists once lifespan has run
\* migrate_settings_from_env().
TARGET_SLEEP_HOURS == user_settings.target_sleep_hours
STATS_WINDOW_DAYS  == user_settings.stats_window_days


---------------------------------------------------------------------------
(* db/database.py: the window engine *)

\* A statistics query whose window always starts n days back and ends today
statistics_over_wide_window(table, day, n) ==
    LET rows == {d \in DOMAIN table : d >= day - n /\ d <= day}
    IN  [total_sleep_hours  |-> SumOver(table, rows, "sleep_hours"),
         target_sleep_hours |-> SumOver(table, rows, "target_hours"),
         current_debt       |-> SumOver(table, rows, "debt"),
         days_tracked       |-> Cardinality(rows),
         has_today_data     |-> day \in DOMAIN table]

\* The aggregates over every row of the table, whatever its date: a variant
\* for comparison.
statistics_over_whole_table(table, day, n) ==
    [total_sleep_hours  |-> SumOver(table, DOMAIN table, "sleep_hours"),
     target_sleep_hours |-> SumOver(table, DOMAIN table, "target_hours"),
     current_debt       |-> SumOver(table, DOMAIN table, "debt"),
     days_tracked       |-> Cardinality(DOMAIN table),
     has_today_data     |-> day \in DOMAIN table]

\* get_sleep_statistics, for the table `include_example` selects, on date
\* `day`, with stats_window = `n`.
get_sleep_statistics(table, day, n) ==
    LET today_exists == day \in DOMAIN table
        window_start == IF today_exists THEN day - (n - 1) ELSE day - n
        window_end   == IF today_exists THEN day ELSE day - 1
        rows == {d \in DOMAIN table : d >= window_start /\ d <= window_end}
        days_tracked == Cardinality(rows)
    IN  IF days_tracked = 0
        THEN [total_sleep_hours |-> 0, target_sleep_hours |-> 0, current_debt |-> 0,
              days_tracked |-> 0, has_today_data |-> today_exists]
        ELSE [total_sleep_hours  |-> SumOver(table, rows, "sleep_hours"),
              target_sleep_hours |-> SumOver(table, rows, "target_hours"),
              current_debt       |-> SumOver(table, rows, "debt"),
              days_tracked       |-> days_tracked,
              has_today_data     |-> today_exists]

\* The count with no lower end of the window: a variant for comparison.
count_up_to_window_end(table, day, window_days) ==
    LET today_exists == day \in DOMAIN table
        window_end   == IF today_exists THEN day ELSE day - 1
    IN  Cardinality({d \in DOMAIN table : d <= window_end})

\* count_available_days_in_window(window_days, include_example)
count_available_days_in_window(table, day, window_days) ==
    LET today_exists == day \in DOMAIN table
        window_start == IF today_exists THEN day - (window_days - 1) ELSE day - window_days
        window_end   == IF today_exists THEN day ELSE day - 1
    IN  Cardinality({d \in DOMAIN table : d >= window_start /\ d <= window_end})

\* count_total_real_data_days(): real dates among the last 35 days
count_total_real_data_days(real, day) ==
    Cardinality({d \in DOMAIN real : d >= day - 34 /\ d <= day})

\* count_example_data_in_window(window_days): today counts as present when
\* either table holds it
count_example_data_in_window(real, example, day, window_days) ==
    LET today_exists == day \in DOMAIN real \/ day \in DOMAIN example
        window_start == IF today_exists THEN day - (window_days - 1) ELSE day - window_days
        window_end   == IF today_exists THEN day ELSE day - 1
    IN  Cardinality({d \in DOMAIN example : d >= window_start /\ d <= window_end})

\* A pass that sets target_hours and leaves debt as it was
retarget_only(table, target_hours) ==
    [d \in DOMAIN table |-> [table[d] EXCEPT !.target_hours = target_hours]]

\* recalculate_debt_for_all_records: one table's pass.  Each UPDATE sets debt
\* and target_hours of one row together, from the sleep_hours the SELECT read.
RecalculateTable(table, target_hours) ==
    [d \in DOMAIN table |->
        [sleep_hours  |-> table[d].sleep_hours,
         target_hours |-> target_hours,
         debt         |-> target_hours - table[d].sleep_hours]]

---------------------------------------------------------------------------
(* etl/garmin_sync.py *)

\* Requests Garmin answers before GarminConnectTooManyRequestsError, when it
\* rate-limits a fetch.
RateLimitAfter == 3

\* How one real fetch can go: authentication fails (ValueError), every day is
\* asked for, or the rate limit stops the loop early.
SyncOutcomes(days) ==
    {[auth |-> FALSE, limit |-> 0]}
      \cup {[auth |-> TRUE, limit |-> l] : l \in {days, Min(days, RateLimitAfter)}}

\* round(x, 1) on thousandths of an hour
Round1(x) ==
    LET q == x \div 100
        r == x % 100
    IN  IF r > 50 \/ (r = 50 /\ q % 2 = 1) THEN (q + 1) * 100 ELSE q * 100

\* random.uniform(-0.3, 0.3), drawn per row: row i of a call seeded `seed`
RandomOffset(seed, i) == (((seed + i) % 3) - 1) * 300

\* A generation of the `days` dates before today: a variant for comparison.
generate_up_to_yesterday(days, day, target_hours, seed) ==
    [d \in {day - i : i \in 1..days} |->
        LET i == day - d
            variation == ((i % 5) - 2) * 500
            sleep_hours == Max(5000, Min(11000,
                               Round1(target_hours + variation + RandomOffset(seed, i))))
        IN  Row(sleep_hours, target_hours)]

\* _generate_dummy_sleep_data(days)
generate_dummy_sleep_data(days, day, target_hours, seed) ==
    [d \in {day - i : i \in 0..(days - 1)} |->
        LET i == day - d
            variation == ((i % 5) - 2) * 500
            sleep_hours == Max(5000, Min(11000,
                               Round1(target_hours + variation + RandomOffset(seed, i))))
        IN  Row(sleep_hours, target_hours)]

\* _fetch_garmin_sleep_data(days), once authenticated: the days Garmin has
\* a positive duration for, among those asked before any rate limit.
fetch_garmin_sleep_data(days, day, target_hours, upstream, limit) ==
    [d \in {x \in {day - i : i \in 0..(Min(days, limit) - 1)} :
                x \in DOMAIN upstream /\ upstream[x] > 0} |->
        Row(upstream[d], target_hours)]

\* write_sleep_batch(records) where every record sent to the real table:
\* a variant for comparison.
write_all_to_sleep_data(real, example, rows, is_example) ==
    [real |-> Upsert(real, rows), example |-> example,
     written |-> Cardinality(DOMAIN rows)]

\* write_sleep_batch(records): rows marked is_example are upserted into
\* example_sleep_data, the others into sleep_data, each on its primary key
\* date; the number of records is returned.
write_sleep_batch(real, example, rows, is_example) ==
    [real    |-> IF is_example THEN real ELSE Upsert(real, rows),
     example |-> IF is_example THEN Upsert(example, rows) ELSE example,
     written |-> Cardinality(DOMAIN rows)]

\* sync_sleep_data in which an empty fetch is a success with 0 records: a
\* variant for comparison.
sync_accepting_empty(days, use_dummy_data, real, example, target_hours, day, upstream, oc, seed) ==
    LET rows == IF use_dummy_data
                THEN generate_dummy_sleep_data(days, day, target_hours, seed)
                ELSE IF oc.auth
                THEN fetch_garmin_sleep_data(days, day, target_hours, upstream, oc.limit)
                ELSE EmptyTable
        w == write_sleep_batch(real, example, rows, use_dummy_data)
    IN  [success |-> TRUE, records_synced |-> w.written, last_sync |-> <<day>>,
         used_dummy_data |-> use_dummy_data, message |-> "synced",
         real |-> w.real, example |-> w.example]

\* sync_sleep_data(days, use_dummy_data): the result dictionary, with the two
\* tables as the call leaves them.  In real mode a failed authentication, a
\* failed fetch and an empty fetch all end in one of the two except clauses.
sync_sleep_data(days, use_dummy_data, real, example, target_hours, day, upstream, oc, seed) ==
    IF use_dummy_data
    THEN LET rows == generate_dummy_sleep_data(days, day, target_hours, seed)
             w == write_sleep_batch(real, example, rows, TRUE)
         IN  IF DOMAIN rows = {}
             THEN [success |-> FALSE, records_synced |-> 0, last_sync |-> <<day>>,
                   used_dummy_data |-> TRUE, message |-> "failed to generate",
                   real |-> real, example |-> example]
             ELSE [success |-> TRUE, records_synced |-> w.written,
                   last_sync |-> <<day>>, used_dummy_data |-> TRUE,
                   message |-> "generated",
                   real |-> w.real, example |-> w.example]
    ELSE LET rows == IF oc.auth
                     THEN fetch_garmin_sleep_data(days, day, target_hours, upstream, oc.limit)
                     ELSE EmptyTable
             w == write_sleep_batch(real, example, rows, FALSE)
         IN  IF DOMAIN rows = {}
             THEN [success |-> FALSE, records_synced |-> 0, last_sync |-> <<day>>,
                   used_dummy_data |-> FALSE, message |-> "sync failed",
                   real |-> real, example |-> example]
             ELSE [success |-> TRUE, records_synced |-> w.written,
                   last_sync |-> <<day>>, used_dummy_data |-> FALSE,
                   message |-> "synced",
                   real |-> w.real, example |-> w.example]

---------------------------------------------------------------------------
(* etl/auto_sync.py *)

\* datetime.time(h, m), and the length of a day, in seconds
Time(h, m) == h * 3600 + m * 60
DaySeconds == Time(24, 0)

\* _last_check_date = None
NoDate == -1

\* _get_next_sync_times()
sync_times ==
    <<Time(7, 0), Time(7, 30), Time(8, 0), Time(8, 30), Time(9, 0), Time(9, 30),
      Time(10, 0), Time(11, 0), Time(12, 0), Time(13, 0)>>

\* _should_run_sync_now() without its test of the 07:00-13:00 band: a
\* variant for comparison.
due_check_without_band(t) ==
    LET later == {i \in 1..Len(sync_times) : t <= sync_times[i]}
    IN  IF later = {}
        THEN [should_run |-> FALSE, next_sync_time |-> Time(7, 0)]
        ELSE LET first == CHOOSE i \in later : \A j \in later : i <= j
                 next_sync_time == sync_times[first]
                 time_diff == Abs(t - next_sync_time)
             IN  [should_run |-> time_diff <= 300, next_sync_time |-> next_sync_time]

\* _should_run_sync_now() at time of day t: (should_run, next_sync_time)
should_run_sync_now(t) ==
    IF t < Time(7, 0) \/ t > Time(13, 0)
    THEN [should_run |-> FALSE, next_sync_time |-> Time(7, 0)]
    ELSE LET later == {i \in 1..Len(sync_times) : t <= sync_times[i]}
         IN  IF later = {}
             THEN [should_run |-> FALSE, next_sync_time |-> Time(7, 0)]
             ELSE LET first == CHOOSE i \in later : \A j \in later : i <= j
                      next_sync_time == sync_times[first]
                      time_diff == Abs(t - next_sync_time)
                  IN  [should_run |-> time_diff <= 300, next_sync_time |-> next_sync_time]

\* A call of the Syncer, as the caller made it and as it ended
SyncCall(days, use_dummy_data, result) ==
    [days |-> days, use_dummy_data |-> use_dummy_data, success |-> result.success,
     records_synced |-> result.records_synced]

\* _perform_auto_sync() without its use_dummy_data test: a variant for
\* comparison.
perform_ignoring_mode(d, t, oc) ==
    IF get_sleep_statistics(sleep_data, d, STATS_WINDOW_DAYS).has_today_data
    THEN [success |-> TRUE, real |-> sleep_data, calls |-> <<>>]
    ELSE LET sync_result == sync_sleep_data(1, FALSE, sleep_data, example_sleep_data,
                                            TARGET_SLEEP_HOURS, d, garmin, oc, 0)
             stats == get_sleep_statistics(sync_result.real, d, STATS_WINDOW_DAYS)
         IN  [success |-> sync_result.success /\ stats.has_today_data,
              real    |-> sync_result.real,
              calls   |-> <<SyncCall(1, FALSE, sync_result)>>]

\* _perform_auto_sync() on date d at time t; oc is how the Garmin fetch goes.
perform_auto_sync(d, t, oc) ==
    IF user_settings.use_dummy_data
    THEN [success |-> FALSE, real |-> sleep_data, calls |-> <<>>]
    ELSE IF get_sleep_statistics(sleep_data, d, STATS_WINDOW_DAYS).has_today_data
    THEN [success |-> TRUE, real |-> sleep_data, calls |-> <<>>]
    ELSE LET sync_result == sync_sleep_data(1, FALSE, sleep_data, example_sleep_data,
                                            TARGET_SLEEP_HOURS, d, garmin, oc, 0)
             stats == get_sleep_statistics(sync_result.real, d, STATS_WINDOW_DAYS)
         IN  [success |-> sync_result.success /\ stats.has_today_data,
              real    |-> sync_result.real,
              calls   |-> <<SyncCall(1, FALSE, sync_result)>>]

\* The wait until next_sync_time of the same day, ahead of now or not: a
\* variant for comparison.
wait_within_today(now, next_sync_time) == next_sync_time - now

\* The wait of an iteration that did not find today's data: until
\* next_sync_time today, or tomorrow 07:00 when that is not ahead of now.
NextSyncWait(now, next_sync_time) ==
    IF next_sync_time <= now
    THEN (DaySeconds - now) + Time(7, 0)
    ELSE next_sync_time - now

\* The instant just past t's minute
JustPast(t) == (t - (t % 60)) + 1

\* The flag as the top of the while body leaves it on date d: cleared when
\* last_check_date is set and differs from d.  The variant never clears it.
flag_carried_over(d) == today_data_found

flag_at_loop_top(d) ==
    IF last_check_date # NoDate /\ last_check_date # d THEN FALSE ELSE today_data_found

\* Whether a pass goes on to _perform_auto_sync: not when the flag is set
\* (that branch sleeps and continues), else when the due-check says so.  The
\* variant has no satisfied branch.
attempt_whenever_due(found, should_run) == should_run

attempts_sync(found, should_run) == ~found /\ should_run

\* One pass of _auto_sync_loop on date d from time t, from the top of the
\* while body to its next asyncio.sleep; `slow` tells whether the Syncer call,
\* if any, takes noticeable time.  A successful _perform_auto_sync continues
\* into the satisfied branch.
auto_sync_loop_body(d, t, oc, slow) ==
    LET found0 == flag_at_loop_top(d)
        sr == should_run_sync_now(t)
        due == attempts_sync(found0, sr.should_run)
        p  == IF due
              THEN perform_auto_sync(d, t, oc)
              ELSE [success |-> FALSE, real |-> sleep_data, calls |-> <<>>]
        now == IF p.calls # <<>> /\ slow THEN JustPast(t) ELSE t
        found1 == found0 \/ p.success
        wait_seconds == IF found1
                        THEN (DaySeconds - now) + Time(7, 0)
                        ELSE NextSyncWait(now, sr.next_sync_time)
    IN  [found     |-> found1,
         real      |-> p.real,
         now       |-> now,
         sleep     |-> Min(wait_seconds, 3600),
         due       |-> due,
         calls     |-> p.calls]

\* <<date, time>> `secs` after <<d, t>>
After(d, t, secs) ==
    IF t + secs >= DaySeconds THEN <<d + 1, t + secs - DaySeconds>> ELSE <<d, t + secs>>

Before(a, b) == a[1] < b[1] \/ (a[1] = b[1] /\ a[2] < b[2])

---------------------------------------------------------------------------
(* Bounds of the scheduler model *)

\* Dates run from 0 to MaxDay.
MaxDay == 1

\* Times of day at which the process starts or a request arrives.
WallTimes == {Time(6, 57), Time(7, 0), Time(7, 27), Time(8, 2), Time(13, 3)}

\* Sleep durations Garmin may publish for a date.
GarminHours == {7200}

---------------------------------------------------------------------------
(* The scheduler task *)

\* start_auto_sync() without its test of a task still alive: a variant for
\* comparison.
start_without_alive_check ==
    /\ auto_sync_enabled' = TRUE
    /\ auto_sync_task' = "created"
    /\ loop_tasks' = loop_tasks + 1
    /\ cancel_requested' = FALSE
    /\ lastOp' = [kind |-> "start_auto_sync", started |-> TRUE]
    /\ UNCHANGED <<today, clock, storeVars, wake, today_data_found, last_check_date>>

\* start_auto_sync(), called with the event loop running
StartAutoSync ==
    /\ IF auto_sync_task \in {"created", "sleeping"}
       THEN /\ UNCHANGED <<auto_sync_enabled, auto_sync_task, loop_tasks, cancel_requested>>
            /\ lastOp' = [kind |-> "start_auto_sync", started |-> FALSE]
       ELSE /\ auto_sync_enabled' = TRUE
            /\ auto_sync_task' = "created"
            /\ loop_tasks' = loop_tasks + 1
            /\ cancel_requested' = FALSE
            /\ lastOp' = [kind |-> "start_auto_sync", started |-> TRUE]
    /\ UNCHANGED <<today, clock, storeVars, wake, today_data_found, last_check_date>>

\* stop_auto_sync() that clears the enabled flag and cancels nothing: a
\* variant for comparison.
stop_without_cancel ==
    /\ auto_sync_enabled' = FALSE
    /\ lastOp' = [kind |-> "stop_auto_sync"]
    /\ UNCHANGED <<today, clock, storeVars, auto_sync_task, loop_tasks, cancel_requested, wake,
                   today_data_found, last_check_date>>

\* stop_auto_sync()
StopAutoSync ==
    /\ auto_sync_enabled' = FALSE
    /\ cancel_requested' = (cancel_requested \/ auto_sync_task \in {"created", "sleeping"})
    /\ lastOp' = [kind |-> "stop_auto_sync"]
    /\ UNCHANGED <<today, clock, storeVars, auto_sync_task, loop_tasks, wake, today_data_found,
                   last_check_date>>

\* _auto_sync_loop resumed on date d at time t: the while test, then one pass
\* of the body up to its asyncio.sleep.
LoopStep(d, t, oc, slow) ==
    IF ~auto_sync_enabled
    THEN /\ auto_sync_task' = "done"
         /\ loop_tasks' = loop_tasks - 1
         /\ today' = d
         /\ clock' = t
         /\ lastOp' = [kind |-> "auto_sync_loop_exit"]
         /\ UNCHANGED <<storeVars, auto_sync_enabled, cancel_requested, wake,
                        today_data_found, last_check_date>>
    ELSE LET b == auto_sync_loop_body(d, t, oc, slow)
         IN  /\ auto_sync_task' = "sleeping"
             /\ today' = d
             /\ clock' = b.now
             /\ today_data_found' = b.found
             /\ last_check_date' = d
             /\ sleep_data' = b.real
             /\ wake' = After(d, b.now, b.sleep)
             /\ lastOp' = [kind |-> "auto_sync_loop", at |-> <<d, t>>,
                           new_day |-> (last_check_date # NoDate /\ last_check_date # d),
                           was_found |-> today_data_found,
                           due |-> b.due, calls |-> b.calls]
             /\ UNCHANGED <<example_sleep_data, user_settings, last_sync, garmin,
                            auto_sync_enabled, loop_tasks, cancel_requested>>

\* The created task gets its first turn on the event loop; a task cancelled
\* before that never runs its body.
SchedulerStarts ==
    /\ auto_sync_task = "created"
    /\ IF cancel_requested
       THEN /\ auto_sync_task' = "done"
            /\ loop_tasks' = loop_tasks - 1
            /\ cancel_requested' = FALSE
            /\ lastOp' = [kind |-> "auto_sync_cancelled"]
            /\ UNCHANGED <<today, clock, storeVars, auto_sync_enabled, wake,
                           today_data_found, last_check_date>>
       ELSE \E oc \in SyncOutcomes(1), slow \in BOOLEAN :
                LoopStep(today, clock, oc, slow)

\* asyncio.sleep returns, at its deadline or just past it
SchedulerWakes ==
    /\ auto_sync_task = "sleeping"
    /\ ~cancel_requested
    /\ wake[1] <= MaxDay
    /\ \E late \in BOOLEAN, oc \in SyncOutcomes(1), slow \in BOOLEAN :
          LoopStep(wake[1], IF late THEN JustPast(wake[2]) ELSE wake[2], oc, slow)

\* CancelledError is raised inside the pending asyncio.sleep: the loop breaks
SchedulerCancelled ==
    /\ auto_sync_task = "sleeping"
    /\ cancel_requested
    /\ auto_sync_task' = "done"
    /\ loop_tasks' = loop_tasks - 1
    /\ cancel_requested' = FALSE
    /\ lastOp' = [kind |-> "auto_sync_cancelled"]
    /\ UNCHANGED <<today, clock, storeVars, auto_sync_enabled, wake, today_data_found,
                   last_check_date>>

---------------------------------------------------------------------------
(* Faults inside a pass of the scheduler *)

\* Where a statement of a pass may raise: the first get_sleep_statistics of
\* _perform_auto_sync, its second one after the Syncer call, or the loop
\* body outside _perform_auto_sync (at the due-check).
AttemptFaults == {"statistics", "recheck"}

Faults == AttemptFaults \cup {"loop"}

\* Whether a pass on date d at time t, with fetch outcome oc, gets as far as
\* the statement that raises.
fault_reached(d, t, oc, fault) ==
    LET found0 == flag_at_loop_top(d)
        due == attempts_sync(found0, should_run_sync_now(t).should_run)
        sync_result == sync_sleep_data(1, FALSE, sleep_data, example_sleep_data,
                                       TARGET_SLEEP_HOURS, d, garmin, oc, 0)
    IN  CASE fault = "loop"       -> ~found0
          [] fault = "statistics" -> due /\ ~user_settings.use_dummy_data
          [] fault = "recheck"    ->
                /\ due /\ ~user_settings.use_dummy_data
                /\ ~get_sleep_statistics(sleep_data, d, STATS_WINDOW_DAYS).has_today_data
                /\ sync_result.success

\* _perform_auto_sync() when the statement at `fault` raises: the except
\* clause of the function returns False; what the Syncer wrote before the
\* second query stays written.
perform_auto_sync_raising(d, t, oc, fault) ==
    IF fault = "statistics"
    THEN [success |-> FALSE, real |-> sleep_data, calls |-> <<>>]
    ELSE LET sync_result == sync_sleep_data(1, FALSE, sleep_data, example_sleep_data,
                                            TARGET_SLEEP_HOURS, d, garmin, oc, 0)
         IN  [success |-> FALSE, real |-> sync_result.real,
              calls |-> <<SyncCall(1, FALSE, sync_result)>>]

\* One pass of _auto_sync_loop in which the statement at `fault` raises.  A
\* fault inside _perform_auto_sync is caught there, and the pass goes on to
\* the wait for the next sync time; a fault in the loop body itself reaches
\* the loop's except clause, which sleeps 300 seconds.
auto_sync_loop_raising(d, t, oc, fault) ==
    LET found0 == flag_at_loop_top(d)
        sr == should_run_sync_now(t)
        p  == IF fault \in AttemptFaults
              THEN perform_auto_sync_raising(d, t, oc, fault)
              ELSE [success |-> FALSE, real |-> sleep_data, calls |-> <<>>]
        wait_seconds == IF fault \in AttemptFaults
                        THEN Min(NextSyncWait(t, sr.next_sync_time), 3600)
                        ELSE 300
    IN  [found |-> found0,
         real  |-> p.real,
         now   |-> t,
         sleep |-> wait_seconds,
         due   |-> fault \in AttemptFaults,
         calls |-> p.calls]

\* asyncio.sleep returns and the pass that follows hits a fault
SchedulerWakesRaising ==
    /\ auto_sync_task = "sleeping"
    /\ ~cancel_requested
    /\ auto_sync_enabled
    /\ wake[1] <= MaxDay
    /\ \E oc \in SyncOutcomes(1), fault \in Faults :
          /\ fault_reached(wake[1], wake[2], oc, fault)
          /\ LET b == auto_sync_loop_raising(wake[1], wake[2], oc, fault)
             IN  /\ today' = wake[1]
                 /\ clock' = b.now
                 /\ today_data_found' = b.found
                 /\ last_check_date' = wake[1]
                 /\ sleep_data' = b.real
                 /\ wake' = After(wake[1], b.now, b.sleep)
                 /\ lastOp' = [kind |-> "auto_sync_loop_fault", at |-> <<wake[1], wake[2]>>,
                               fault |-> fault, due |-> b.due, calls |-> b.calls]
                 /\ UNCHANGED <<example_sleep_data, user_settings, last_sync, garmin,
                                auto_sync_enabled, auto_sync_task, loop_tasks,
                                cancel_requested>>

---------------------------------------------------------------------------
(* The environment: the wall clock and Garmin Connect *)

\* Time passes while nothing runs, at most up to a sleeping scheduler's
\* deadline.
TimePasses ==
    \E d \in {today, today + 1}, t \in WallTimes :
        /\ d <= MaxDay
        /\ Before(<<today, clock>>, <<d, t>>)
        /\ (auto_sync_task = "sleeping" /\ ~cancel_requested) => ~Before(wake, <<d, t>>)
        /\ today' = d
        /\ clock' = t
        /\ lastOp' = [kind |-> "time_passes"]
        /\ UNCHANGED <<storeVars, schedVars>>

\* Garmin publishes last night's sleep
GarminPublishes ==
    /\ today \notin DOMAIN garmin
    /\ \E h \in GarminHours :
          garmin' = [d \in DOMAIN garmin \cup {today} |-> IF d = today THEN h ELSE garmin[d]]
    /\ lastOp' = [kind |-> "garmin_publishes"]
    /\ UNCHANGED <<today, clock, sleep_data, example_sleep_data, user_settings, last_sync,
                   schedVars>>

---------------------------------------------------------------------------
(* backend/main.py: the sync and delete endpoints *)

\* POST /api/sleep/sync storing the timestamp whatever the result: a variant
\* for comparison.
sync_sleep_always_stamping ==
    \E oc \in SyncOutcomes(35), seed \in 0..0 :
        LET result == sync_sleep_data(35, user_settings.use_dummy_data, sleep_data,
                                      example_sleep_data, TARGET_SLEEP_HOURS, today,
                                      garmin, oc, seed)
        IN  /\ sleep_data' = result.real
            /\ example_sleep_data' = result.example
            /\ last_sync' = result.last_sync
            /\ lastOp' = [kind |-> "sync_sleep", success |-> result.success,
                          records_synced |-> result.records_synced,
                          last_sync |-> result.last_sync,
                          used_dummy_data |-> result.used_dummy_data,
                          calls |-> <<SyncCall(35, user_settings.use_dummy_data, result)>>]
            /\ UNCHANGED <<today, clock, user_settings, garmin, schedVars>>

\* POST /api/sleep/sync
sync_sleep ==
    \E oc \in SyncOutcomes(35), seed \in 0..0 :
        LET result == sync_sleep_data(35, user_settings.use_dummy_data, sleep_data,
                                      example_sleep_data, TARGET_SLEEP_HOURS, today,
                                      garmin, oc, seed)
        IN  /\ sleep_data' = result.real
            /\ example_sleep_data' = result.example
            /\ last_sync' = IF result.success THEN result.last_sync ELSE last_sync
            /\ lastOp' = [kind |-> "sync_sleep", success |-> result.success,
                          records_synced |-> result.records_synced,
                          last_sync |-> result.last_sync,
                          used_dummy_data |-> result.used_dummy_data,
                          calls |-> <<SyncCall(35, user_settings.use_dummy_data, result)>>]
            /\ UNCHANGED <<today, clock, user_settings, garmin, schedVars>>

\* DELETE /api/sleep/data: delete_all_sleep_data() empties sleep_data only
delete_all_data ==
    /\ sleep_data' = EmptyTable
    /\ lastOp' = [kind |-> "delete_all_data", success |-> TRUE,
                  records_deleted |-> Cardinality(DOMAIN sleep_data)]
    /\ UNCHANGED <<today, clock, example_sleep_data, user_settings, last_sync, garmin,
                   schedVars>>

---------------------------------------------------------------------------
(* backend/main.py: PUT /api/settings *)

\* The table a query reads, by its include_example argument
Selected(real, example, include_example) == IF include_example THEN example ELSE real

\* has_today_data of get_sleep_statistics(include_example)
has_today_data(real, example, include_example) ==
    get_sleep_statistics(Selected(real, example, include_example), today,
                         STATS_WINDOW_DAYS).has_today_data

\* The days a sync asks for to cover a window: one more when today has no data
days_to_sync(window_days, today_has_data) ==
    IF today_has_data THEN window_days ELSE window_days + 1

\* The handler's locals after its availability checks
settings_checks(req) ==
    LET available_days ==
            count_available_days_in_window(
                Selected(sleep_data, example_sleep_data, req.use_dummy_data),
                today, req.stats_window_days)
        total_real_days == count_total_real_data_days(sleep_data, today)
    IN  [real              |-> sleep_data,
         example           |-> example_sleep_data,
         available_days    |-> available_days,
         total_real_days   |-> total_real_days,
         should_force_sync |-> (available_days < req.stats_window_days
                                /\ ~(total_real_days >= req.stats_window_days)),
         has_synced        |-> FALSE,
         stats_window_days |-> req.stats_window_days,
         calls             |-> <<>>,
         steps             |-> <<>>,
         fallbacks         |-> <<>>,
         error             |-> "none"]

\* A sync that never sets has_synced: a variant for comparison.
sync_never_marking(c, req, days, oc, marks, step) ==
    LET r == sync_sleep_data(days, FALSE, c.real, c.example, TARGET_SLEEP_HOURS, today,
                             garmin, oc, 0)
    IN  [c EXCEPT !.real = r.real,
                  !.available_days =
                      IF r.success
                      THEN count_available_days_in_window(r.real, today, req.stats_window_days)
                      ELSE @,
                  !.calls = Append(@, SyncCall(days, FALSE, r)),
                  !.steps = Append(@, step)]

\* sync_sleep_data(days, use_dummy_data=False) from the locals c, and the
\* re-count of available_days that follows success; `marks` tells whether
\* success sets has_synced, `step` names the block of the handler that calls.  The rows are written with the target still in
\* force.  Every such call is made with the requested use_dummy_data false, so
\* the re-count reads the real table.
real_sync(c, req, days, oc, marks, step) ==
    LET r == sync_sleep_data(days, FALSE, c.real, c.example, TARGET_SLEEP_HOURS, today,
                             garmin, oc, 0)
    IN  [c EXCEPT !.real = r.real,
                  !.available_days =
                      IF r.success
                      THEN count_available_days_in_window(r.real, today, req.stats_window_days)
                      ELSE @,
                  !.has_synced = @ \/ (marks /\ r.success),
                  !.calls = Append(@, SyncCall(days, FALSE, r)),
                  !.steps = Append(@, step)]

\* The forced sync when the window is short of data and so is the real table
force_sync(c, req) ==
    IF c.should_force_sync /\ ~req.use_dummy_data
    THEN LET days == days_to_sync(req.stats_window_days,
                                  has_today_data(c.real, c.example, req.use_dummy_data))
         IN  {real_sync(c, req, days, oc, TRUE, "force") : oc \in SyncOutcomes(days)}
    ELSE {c}

\* The sync on the switch from example to real data
transition_sync(c, req) ==
    IF user_settings.use_dummy_data /\ ~req.use_dummy_data /\ ~c.has_synced
       /\ c.total_real_days < req.stats_window_days
    THEN LET days == days_to_sync(req.stats_window_days,
                                  has_today_data(c.real, c.example, req.use_dummy_data))
         IN  {real_sync(c, req, days, oc, TRUE, "transition") : oc \in SyncOutcomes(days)}
    ELSE {c}

\* The sync when example rows lie in the requested window of a real-data request
stale_example_sync(c, req) ==
    IF ~req.use_dummy_data /\ ~c.has_synced
       /\ count_example_data_in_window(c.real, c.example, today, req.stats_window_days) > 0
    THEN LET c1 == [c EXCEPT !.available_days =
                        count_available_days_in_window(
                            Selected(c.real, c.example, req.use_dummy_data),
                            today, req.stats_window_days)]
             days == days_to_sync(req.stats_window_days,
                                  has_today_data(c.real, c.example, FALSE))
         IN  IF c.total_real_days < req.stats_window_days
             THEN {real_sync(c1, req, days, oc, TRUE, "stale_example") : oc \in SyncOutcomes(days)}
             ELSE {c1}
    ELSE {c}

fallback_windows(stats_window_days) ==
    IF stats_window_days = 30 THEN <<14, 7>>
    ELSE IF stats_window_days = 14 THEN <<7>> ELSE <<>>

RECURSIVE try_fallbacks(_, _, _)
\* The for loop over fallback_windows: sync, and on success accept the
\* fallback window if it is fully covered, and break.
try_fallbacks(c, windows, today_has_data) ==
    IF windows = <<>> THEN {c}
    ELSE LET fallback_window == Head(windows)
             fallback_days_to_sync == days_to_sync(fallback_window, today_has_data)
         IN  UNION {
               LET r == sync_sleep_data(fallback_days_to_sync, FALSE, c.real, c.example,
                                        TARGET_SLEEP_HOURS, today, garmin, oc, 0)
                   fallback_available ==
                       count_available_days_in_window(r.real, today, fallback_window)
                   c1 == [c EXCEPT
                            !.real = r.real,
                            !.calls = Append(@, SyncCall(fallback_days_to_sync, FALSE, r)),
                            !.steps = Append(@, "fallback"),
                            !.fallbacks = Append(@, [window    |-> fallback_window,
                                                     success   |-> r.success,
                                                     available |-> fallback_available])]
               IN  IF r.success /\ fallback_available >= fallback_window
                   THEN {[c1 EXCEPT !.stats_window_days = fallback_window,
                                    !.available_days = fallback_available]}
                   ELSE try_fallbacks(c1, Tail(windows), today_has_data)
               : oc \in SyncOutcomes(fallback_days_to_sync)}

\* The last sync of a real-data request still short of data, the fallback to
\* smaller windows, and the insufficient-data error
final_sync(c, req) ==
    LET today_has_data == has_today_data(c.real, c.example, req.use_dummy_data)
        days == days_to_sync(req.stats_window_days, today_has_data)
    IN  IF ~req.use_dummy_data /\ c.available_days < req.stats_window_days /\ ~c.has_synced
        THEN UNION {
               LET c1 == real_sync(c, req, days, oc, FALSE, "final")
               IN  IF c1.available_days < req.stats_window_days
                   THEN {IF c2.available_days < 7
                         THEN [c2 EXCEPT !.error = "insufficient_data"] ELSE c2
                         : c2 \in try_fallbacks(c1, fallback_windows(req.stats_window_days),
                                                today_has_data)}
                   ELSE {c1}
               : oc \in SyncOutcomes(days)}
        ELSE {c}

\* What can raise in an update after its real-data syncs: the generation of
\* example rows (its write), and the sweep (its connection)
UpdateFaults == {"generate", "recalculate"}

\* A generation whose failure ends the update: a variant for comparison.
generate_or_fail(c, req, seed, faults) ==
    IF req.use_dummy_data
    THEN LET days_to_generate == Max(3, c.stats_window_days)
             r == sync_sleep_data(days_to_generate, TRUE, c.real, c.example,
                                  TARGET_SLEEP_HOURS, today, garmin,
                                  [auth |-> TRUE, limit |-> days_to_generate], seed)
             raised == [success |-> FALSE, records_synced |-> 0]
         IN  IF "generate" \in faults
             THEN [c EXCEPT !.calls = Append(@, SyncCall(days_to_generate, TRUE, raised)),
                            !.steps = Append(@, "example"),
                            !.error = "generation_failed"]
             ELSE [c EXCEPT !.example = r.example,
                            !.calls = Append(@, SyncCall(days_to_generate, TRUE, r)),
                            !.steps = Append(@, "example")]
    ELSE c

\* The generation of example rows for a request with use_dummy_data; with
\* "generate" in faults the call raises before it has written, and the
\* handler logs the error and goes on.
generate_example(c, req, seed, faults) ==
    IF req.use_dummy_data
    THEN LET days_to_generate == Max(3, c.stats_window_days)
             r == sync_sleep_data(days_to_generate, TRUE, c.real, c.example,
                                  TARGET_SLEEP_HOURS, today, garmin,
                                  [auth |-> TRUE, limit |-> days_to_generate], seed)
             raised == [success |-> FALSE, records_synced |-> 0]
         IN  IF "generate" \in faults
             THEN [c EXCEPT !.calls = Append(@, SyncCall(days_to_generate, TRUE, raised)),
                            !.steps = Append(@, "example")]
             ELSE [c EXCEPT !.example = r.example,
                            !.calls = Append(@, SyncCall(days_to_generate, TRUE, r)),
                            !.steps = Append(@, "example")]
    ELSE c

\* A sweep of sleep_data alone
recalculate_sleep_data_only(real, example, target_hours) ==
    [real          |-> RecalculateTable(real, target_hours),
     example       |-> example,
     total_updated |-> Cardinality(DOMAIN real) + Cardinality(DOMAIN example)]

\* recalculate_debt_for_all_records(target_hours): both tables, and the
\* number of rows updated
recalculate_debt_for_all_records(real, example, target_hours) ==
    [real          |-> RecalculateTable(real, target_hours),
     example       |-> RecalculateTable(example, target_hours),
     total_updated |-> Cardinality(DOMAIN real) + Cardinality(DOMAIN example)]

\* The handler without its input validation: a variant for comparison.
locals_without_validation(req, seed, faults) ==
    LET forced   == force_sync(settings_checks(req), req)
        switched == UNION {transition_sync(c, req) : c \in forced}
        cleaned  == UNION {stale_example_sync(c, req) : c \in switched}
        settled  == UNION {final_sync(c, req) : c \in cleaned}
    IN  {IF c.error = "none" THEN generate_example(c, req, seed, faults) ELSE c
         : c \in settled}

\* update_settings(settings) up to update_user_settings: the locals each way
\* its Syncer calls can go leaves it with
update_settings_locals(req, seed, faults) ==
    IF req.target_sleep_hours <= 0 \/ req.stats_window_days < 1
    THEN {[settings_checks(req) EXCEPT !.error = "validation"]}
    ELSE LET forced   == force_sync(settings_checks(req), req)
             switched == UNION {transition_sync(c, req) : c \in forced}
             cleaned  == UNION {stale_example_sync(c, req) : c \in switched}
             settled  == UNION {final_sync(c, req) : c \in cleaned}
         IN  {IF c.error = "none" THEN generate_example(c, req, seed, faults) ELSE c
              : c \in settled}

\* Requests of PUT /api/settings
TargetChoices == {7500, 8000}
WindowChoices == {7, 14, 30}
SettingsRequests ==
    [target_sleep_hours : TargetChoices, stats_window_days : WindowChoices,
     use_dummy_data : {FALSE}]
      \cup {[target_sleep_hours |-> 8000, stats_window_days |-> 7, use_dummy_data |-> TRUE],
            [target_sleep_hours |-> 7500, stats_window_days |-> 30, use_dummy_data |-> TRUE],
            [target_sleep_hours |-> 0, stats_window_days |-> 7, use_dummy_data |-> FALSE],
            [target_sleep_hours |-> 8000, stats_window_days |-> 0, use_dummy_data |-> TRUE]}

\* Seeds of the random offsets of a generation of example rows
Seeds == {0}

\* A test of any difference of the targets: a variant for comparison.
target_differs(current_target_hours, target_sleep_hours) ==
    current_target_hours # target_sleep_hours

\* abs(current_target_hours - settings.target_sleep_hours) > 0.001, in
\* thousandths of an hour
target_changed(current_target_hours, target_sleep_hours) ==
    Abs(current_target_hours - target_sleep_hours) > 1

\* update_settings(settings) for the request req, with the faults that
\* befall it
put_settings(req, seed, faults) ==
      \E c \in update_settings_locals(req, seed, faults) :
        LET current_target_hours == TARGET_SLEEP_HOURS
            recalculates == target_changed(current_target_hours, req.target_sleep_hours)
            sweeps == recalculates /\ "recalculate" \notin faults
            swept == recalculate_debt_for_all_records(c.real, c.example,
                                                      req.target_sleep_hours)
            response == [target_sleep_hours |-> req.target_sleep_hours,
                         stats_window_days  |-> c.stats_window_days,
                         use_dummy_data     |-> req.use_dummy_data]
        IN  /\ IF c.error # "none"
               THEN /\ sleep_data' = c.real
                    /\ example_sleep_data' = c.example
                    /\ UNCHANGED user_settings
                    /\ lastOp' = [kind |-> "update_settings", request |-> req,
                                  status |-> 400, error |-> c.error,
                                  calls |-> c.calls, fallbacks |-> c.fallbacks,
                                  total_real_days |-> c.total_real_days,
                                  steps |-> c.steps, faults |-> faults]
               ELSE /\ user_settings' = response
                    /\ sleep_data' = IF sweeps THEN swept.real ELSE c.real
                    /\ example_sleep_data' = IF sweeps THEN swept.example ELSE c.example
                    /\ lastOp' = [kind |-> "update_settings", request |-> req,
                                  status |-> 200, error |-> c.error,
                                  calls |-> c.calls, fallbacks |-> c.fallbacks,
                                  total_real_days |-> c.total_real_days,
                                  steps |-> c.steps, faults |-> faults,
                                  current_target_hours |-> current_target_hours,
                                  response |-> response,
                                  recalculated |-> recalculates,
                                  records_updated |-> IF sweeps
                                                      THEN swept.total_updated ELSE 0,
                                  written |-> [real |-> c.real, example |-> c.example]]
            /\ UNCHANGED <<today, clock, last_sync, garmin, schedVars>>

\* PUT /api/settings
update_settings ==
    \E req \in SettingsRequests, seed \in Seeds : put_settings(req, seed, {})

\* GET /api/sleep/status
get_sleep_status ==
    LET use_dummy_data == user_settings.use_dummy_data
        stats == get_sleep_statistics(
                     Selected(sleep_data, example_sleep_data, use_dummy_data),
                     today, STATS_WINDOW_DAYS)
    IN  /\ lastOp' = [kind |-> "get_sleep_status",
                      last_sync |-> last_sync,
                      current_debt |-> stats.current_debt,
                      total_sleep_hours |-> stats.total_sleep_hours,
                      target_sleep_hours |-> stats.target_sleep_hours,
                      days_tracked |-> stats.days_tracked,
                      has_today_data |-> stats.has_today_data,
                      stats_window_days |-> STATS_WINDOW_DAYS,
                      total_real_data_days |-> count_total_real_data_days(sleep_data, today)]
        /\ UNCHANGED <<today, clock, storeVars, schedVars>>

---------------------------------------------------------------------------
(* The scheduler with its environment *)

InitScheduler ==
    /\ today = 0
    /\ clock \in WallTimes
    /\ sleep_data \in {EmptyTable, [d \in {0} |-> Row(7000, 8000)]}
    /\ example_sleep_data = EmptyTable
    /\ user_settings \in [target_sleep_hours : {8000}, stats_window_days : {10},
                          use_dummy_data : BOOLEAN]
    /\ last_sync = <<>>
    /\ garmin = EmptyTable
    /\ auto_sync_enabled = TRUE
    /\ auto_sync_task = "none"
    /\ loop_tasks = 0
    /\ cancel_requested = FALSE
    /\ wake = <<0, 0>>
    /\ today_data_found = FALSE
    /\ last_check_date = NoDate
    /\ lastOp = [kind |-> "init"]

NextScheduler ==
    \/ StartAutoSync
    \/ StopAutoSync
    \/ SchedulerStarts
    \/ SchedulerWakes
    \/ SchedulerCancelled
    \/ TimePasses
    \/ GarminPublishes
    \/ delete_all_data

SpecScheduler == InitScheduler /\ [][NextScheduler]_vars

\* A step that is one pass of the scheduler loop
LoopPass == lastOp'.kind = "auto_sync_loop" /\ wake' # wake

\* C1: once today_data_found is true, no pass of the scheduler loop on that
\* same date calls the Syncer, and the flag stays true; it is cleared only by
\* a pass of the loop on a later date, and only after that can the scheduler
\* call the Syncer again.
C1_NoSyncOnceFound ==
    [][today_data_found =>
          /\ (LoopPass /\ today' = last_check_date) =>
                (lastOp'.calls = <<>> /\ today_data_found')
          /\ ~today_data_found' => (LoopPass /\ today' # last_check_date)]_vars

\* C1 witness: a pass of the loop at a due instant, with the flag set and
\* today's sample deleted meanwhile, that made no Syncer call.
C1_Witness ==
    /\ lastOp.kind = "auto_sync_loop"
    /\ today_data_found
    /\ lastOp.was_found /\ ~lastOp.new_day
    /\ should_run_sync_now(lastOp.at[2]).should_run
    /\ today \notin DOMAIN sleep_data
    /\ ~user_settings.use_dummy_data
    /\ lastOp.calls = <<>>

\* C9: every pass of the loop leaves last_check_date at the current date, and
\* a pass on a date other than last_check_date starts from a cleared flag: it
\* makes the sync attempt when the instant is due, and leaves the flag set
\* only if today's real sample is there.  This covers a scheduler stopped on
\* one day and started again on a later one.
C9_RolloverResets ==
    [][LoopPass =>
          /\ last_check_date' = today'
          /\ (last_check_date # today') =>
                /\ should_run_sync_now(lastOp'.at[2]).should_run => lastOp'.due
                /\ today_data_found' => today' \in DOMAIN sleep_data']_vars

\* C9 witness: the first pass after a restart, on a later date than the one
\* the flag was set on, at a due instant: it attempts the sync.
C9_Witness ==
    /\ lastOp.kind = "auto_sync_loop"
    /\ lastOp.new_day /\ lastOp.was_found
    /\ lastOp.due /\ lastOp.calls # <<>>
    /\ lastOp.at[2] = Time(7, 27)

\* The first scheduled instant after time of day t, or 0 when there is none
NextInstantAfter(t) ==
    LET later == {i \in 1..Len(sync_times) : sync_times[i] > t}
    IN  IF later = {} THEN 0
        ELSE sync_times[CHOOSE i \in later : \A j \in later : i <= j]

\* C10: after a due attempt that called the Syncer and left today's data
\* absent, the scheduler is awake again no later than the next scheduled
\* instant of that day, so that instant is not slept through.
C10_RetryAtNextInstant ==
    (/\ lastOp.kind = "auto_sync_loop"
     /\ lastOp.due /\ lastOp.calls # <<>>
     /\ ~today_data_found
     /\ NextInstantAfter(lastOp.at[2]) # 0)
        => ~Before(<<lastOp.at[1], NextInstantAfter(lastOp.at[2])>>, wake)

---------------------------------------------------------------------------
(* The due-check alone, at every second of the day *)

\* get_auto_sync_status()
get_auto_sync_status ==
    LET sr == should_run_sync_now(clock)
    IN  /\ lastOp' = [kind |-> "get_auto_sync_status",
                      enabled |-> auto_sync_enabled,
                      active |-> (auto_sync_enabled /\ auto_sync_task \in {"created", "sleeping"}),
                      today_data_found |-> today_data_found,
                      last_check_date |-> last_check_date,
                      next_sync_time |-> sr.next_sync_time,
                      should_run_now |-> sr.should_run]
        /\ UNCHANGED <<today, clock, storeVars, schedVars>>

InitDueCheck ==
    /\ today = 0
    /\ clock \in 0..(DaySeconds - 1)
    /\ sleep_data = EmptyTable
    /\ example_sleep_data = EmptyTable
    /\ user_settings = [target_sleep_hours |-> 8000, stats_window_days |-> 10,
                        use_dummy_data |-> FALSE]
    /\ last_sync = <<>>
    /\ garmin = EmptyTable
    /\ auto_sync_enabled = TRUE
    /\ auto_sync_task = "none"
    /\ loop_tasks = 0
    /\ cancel_requested = FALSE
    /\ wake = <<0, 0>>
    /\ today_data_found = FALSE
    /\ last_check_date = NoDate
    /\ lastOp = [kind |-> "init"]

NextDueCheck == get_auto_sync_status

SpecDueCheck == InitDueCheck /\ [][NextDueCheck]_vars

\* C2: the due-check reports due exactly within 5 minutes of a scheduled
\* instant, on either side of it: due at 08:02, not due at 08:06 with 08:30
\* as the next due time.
C2_DueWithinTolerance ==
    lastOp.kind = "get_auto_sync_status" =>
        LET near == \E i \in 1..Len(sync_times) : Abs(clock - sync_times[i]) <= 300
        IN  /\ (clock >= Time(7, 0) /\ clock <= Time(13, 0) /\ near) => lastOp.should_run_now
            /\ ~near => ~lastOp.should_run_now
            /\ clock = Time(8, 6) => lastOp.next_sync_time = Time(8, 30)

---------------------------------------------------------------------------
(* The settings update with the other requests *)

\* What Garmin has for date d
GarminSleep(d) == 6500 + 250 * (d % 4)

\* Real rows for the dates from..to, as synced under the default target
History(from, to) == [d \in from..to |-> Row(GarminSleep(d), 8000)]

\* The real table at the start: nothing, the last 14 days up to yesterday,
\* or 10 days up to today
Histories == {EmptyTable, History(-9, 0), History(-14, -1)}

\* What Garmin holds: the last 14 days, or everything
Upstreams == {[d \in D |-> GarminSleep(d)] : D \in {-14..-1, -34..0}}

InitSettings ==
    /\ today = 0
    /\ clock = Time(14, 0)
    /\ sleep_data \in Histories
    /\ example_sleep_data \in {EmptyTable, generate_dummy_sleep_data(10, 0, 8000, 0)}
    /\ user_settings \in [target_sleep_hours : {8000}, stats_window_days : {10},
                          use_dummy_data : BOOLEAN]
    /\ last_sync = <<>>
    /\ garmin \in Upstreams
    /\ auto_sync_enabled = TRUE
    /\ auto_sync_task = "none"
    /\ loop_tasks = 0
    /\ cancel_requested = FALSE
    /\ wake = <<0, 0>>
    /\ today_data_found = FALSE
    /\ last_check_date = NoDate
    /\ lastOp = [kind |-> "init"]

NextSettings ==
    \/ update_settings
    \/ get_sleep_status

SpecSettings == InitSettings /\ [][NextSettings]_vars

\* The Syncer calls of the last settings update asked for the 30-day window,
\* then the 14-day one, then the 7-day one (one day more when today is absent)
TriedThirtyFourteenSeven ==
    LET n == Len(lastOp.calls)
    IN  /\ n >= 3
        /\ lastOp.calls[n].days \in {7, 8}
        /\ lastOp.calls[n - 1].days \in {14, 15}
        /\ \A i \in 1..(n - 2) : lastOp.calls[i].days \in {30, 31}

\* C4: a real-data request for 30 days, with 10 real days in the last 35 and
\* every Syncer call writing no record, syncs for 30, then 14, then 7 days;
\* with the 7-day window fully available it succeeds, and the window
\* persisted and returned is 7.
C4_FallbackToSeven ==
    (/\ lastOp.kind = "update_settings"
     /\ lastOp.error # "validation"
     /\ lastOp.request.stats_window_days = 30
     /\ ~lastOp.request.use_dummy_data
     /\ lastOp.total_real_days = 10
     /\ \A i \in 1..Len(lastOp.calls) : lastOp.calls[i].records_synced = 0
     /\ count_available_days_in_window(sleep_data, today, 7) >= 7)
        => /\ TriedThirtyFourteenSeven
           /\ lastOp.status = 200
           /\ lastOp.response.stats_window_days = 7
           /\ user_settings.stats_window_days = 7

\* C5: a real-data settings update succeeds only with a window its data
\* fully covers; when neither the requested window nor a fallback down to 7
\* is fully covered it fails with the insufficient-data error.
C5_NoPartialWindow ==
    (/\ lastOp.kind = "update_settings"
     /\ lastOp.error # "validation"
     /\ ~lastOp.request.use_dummy_data)
        => LET requested == lastOp.request.stats_window_days
               candidates == {requested} \cup (IF requested = 30 THEN {14, 7}
                                               ELSE IF requested = 14 THEN {7} ELSE {})
               covered(w) == count_available_days_in_window(sleep_data, today, w) >= w
           IN  /\ lastOp.status = 200 => covered(user_settings.stats_window_days)
               /\ (\A w \in candidates : ~covered(w)) =>
                     (lastOp.status = 400 /\ lastOp.error = "insufficient_data")

\* C6: the window a settings update persists and returns is at most the
\* requested one; when it differs it is 14 or 7 for a request of 30, 7 for a
\* request of 14, and it is the first fallback whose availability after its
\* sync met its size.
C6_FirstSatisfiedCandidate ==
    (lastOp.kind = "update_settings" /\ lastOp.status = 200)
        => LET requested == lastOp.request.stats_window_days
               persisted == lastOp.response.stats_window_days
           IN  /\ user_settings.stats_window_days = persisted
               /\ persisted <= requested
               /\ persisted # requested =>
                     /\ \/ (requested = 30 /\ persisted \in {14, 7})
                        \/ (requested = 14 /\ persisted = 7)
                     /\ \A i \in 1..Len(lastOp.fallbacks) :
                           (lastOp.fallbacks[i].available >= lastOp.fallbacks[i].window)
                               => (i = Len(lastOp.fallbacks)
                                   /\ lastOp.fallbacks[i].window = persisted)

---------------------------------------------------------------------------
(* The whole application: the scheduler beside the foreground requests.  Every
   handler is a coroutine without an await, and the scheduler's only
   suspension is its asyncio.sleep, so on the one event loop each runs to its
   end before another starts. *)

\* PUT /api/settings with a new target only
update_target ==
    \E target_sleep_hours \in TargetChoices, seed \in Seeds :
        put_settings([user_settings EXCEPT !.target_sleep_hours = target_sleep_hours], seed, {})

InitApp ==
    /\ today = 0
    /\ clock = Time(7, 27)
    /\ sleep_data = History(-9, -1)
    /\ example_sleep_data = generate_dummy_sleep_data(3, 0, 8000, 0)
    /\ user_settings = [target_sleep_hours |-> 8000, stats_window_days |-> 10,
                        use_dummy_data |-> FALSE]
    /\ last_sync = <<>>
    /\ garmin \in Upstreams
    /\ auto_sync_enabled = TRUE
    /\ auto_sync_task = "none"
    /\ loop_tasks = 0
    /\ cancel_requested = FALSE
    /\ wake = <<0, 0>>
    /\ today_data_found = FALSE
    /\ last_check_date = NoDate
    /\ lastOp = [kind |-> "init"]

NextApp ==
    \/ StartAutoSync
    \/ SchedulerStarts
    \/ SchedulerWakes
    \/ sync_sleep
    \/ update_target

SpecApp == InitApp /\ [][NextApp]_vars

---------------------------------------------------------------------------
(* The statistics query alone, over every small store *)

\* Dates of the rows of the statistics check run from -MaxBack to today, and
\* the window from 1 to MaxBack days
MaxBack == 8

RECURSIVE Pow2(_)
Pow2(n) == IF n = 0 THEN 1 ELSE 2 * Pow2(n - 1)

\* Rows whose sums tell which dates were added
Samples(dates, base) == [d \in dates |-> Row(base + Pow2(0 - d), 8000)]

InitStatistics ==
    /\ today = 0
    /\ clock = Time(14, 0)
    /\ sleep_data \in {Samples(D, 6000) : D \in SUBSET ((0 - MaxBack)..0)}
    /\ example_sleep_data \in {EmptyTable, Samples((1 - MaxBack)..0, 9000),
                               Samples((0 - MaxBack)..(0 - 1), 9000)}
    /\ user_settings \in [target_sleep_hours : {8000}, stats_window_days : 1..MaxBack,
                          use_dummy_data : BOOLEAN]
    /\ last_sync = <<>>
    /\ garmin = EmptyTable
    /\ auto_sync_enabled = TRUE
    /\ auto_sync_task = "none"
    /\ loop_tasks = 0
    /\ cancel_requested = FALSE
    /\ wake = <<0, 0>>
    /\ today_data_found = FALSE
    /\ last_check_date = NoDate
    /\ lastOp = [kind |-> "init"]

NextStatistics == get_sleep_status

SpecStatistics == InitStatistics /\ [][NextStatistics]_vars

\* C3: the statistics cover exactly the rows of the selected table dated in
\* [today-(N-1), today] when that table has a row for today, and exactly
\* those dated in [today-N, today-1] otherwise.  With real rows for the 7 days
\* before today and N = 7: 7 days tracked, no data for today; with a row for
\* today added: the window moves up by one day, 7 days tracked.
C3_WindowExact ==
    lastOp.kind = "get_sleep_status" =>
        LET table == IF user_settings.use_dummy_data THEN example_sleep_data ELSE sleep_data
            N == user_settings.stats_window_days
            window == IF today \in DOMAIN table
                      THEN {d \in DOMAIN table : today - (N - 1) <= d /\ d <= today}
                      ELSE {d \in DOMAIN table : today - N <= d /\ d <= today - 1}
        IN  /\ lastOp.has_today_data = (today \in DOMAIN table)
            /\ lastOp.days_tracked = Cardinality(window)
            /\ lastOp.total_sleep_hours = SumOver(table, window, "sleep_hours")
            /\ lastOp.target_sleep_hours = SumOver(table, window, "target_hours")
            /\ lastOp.current_debt = SumOver(table, window, "debt")
            /\ (~user_settings.use_dummy_data /\ N = 7 /\ DOMAIN sleep_data = (0 - 7)..(0 - 1))
                  => (lastOp.days_tracked = 7 /\ ~lastOp.has_today_data)
            /\ (~user_settings.use_dummy_data /\ N = 7 /\ DOMAIN sleep_data = (0 - 7)..0)
                  => /\ lastOp.days_tracked = 7 /\ lastOp.has_today_data
                     /\ lastOp.total_sleep_hours = SumOver(sleep_data, (0 - 6)..0, "sleep_hours")

\* C3 witness: the query over real rows for the 7 days before today, N = 7
C3_Witness ==
    /\ lastOp.kind = "get_sleep_status"
    /\ ~user_settings.use_dummy_data
    /\ user_settings.stats_window_days = 7
    /\ DOMAIN sleep_data = (0 - 7)..(0 - 1)
    /\ lastOp.days_tracked = 7
    /\ ~lastOp.has_today_data

---------------------------------------------------------------------------
(* The scheduler with faults, over the last day of the model: a pass may
   raise at any of the Faults *)

InitFaults ==
    /\ today = MaxDay
    /\ clock \in {Time(6, 57), Time(7, 27)}
    /\ sleep_data \in {EmptyTable, [d \in {MaxDay} |-> Row(7000, 8000)]}
    /\ example_sleep_data = EmptyTable
    /\ user_settings \in {[target_sleep_hours |-> 8000,
                           stats_window_days |-> 10,
                           use_dummy_data |-> u] : u \in BOOLEAN}
    /\ last_sync = <<>>
    /\ garmin \in {EmptyTable, [d \in {MaxDay} |-> 7200]}
    /\ auto_sync_enabled = TRUE
    /\ auto_sync_task = "none"
    /\ loop_tasks = 0
    /\ cancel_requested = FALSE
    /\ wake = <<0, 0>>
    /\ today_data_found = FALSE
    /\ last_check_date = NoDate
    /\ lastOp = [kind |-> "init"]

NextFaults ==
    \/ StartAutoSync
    \/ StopAutoSync
    \/ SchedulerStarts
    \/ SchedulerWakes
    \/ SchedulerWakesRaising
    \/ SchedulerCancelled

SpecFaults == InitFaults /\ [][NextFaults]_vars

\* C11: after a pass in which a statement of the scheduled sync attempt
\* raised, the flag is still false, the task is still alive, and the loop
\* sleeps 5 minutes before its next pass.
C11_BackoffAfterFault ==
    (lastOp.kind = "auto_sync_loop_fault" /\ lastOp.fault \in AttemptFaults)
        => /\ ~today_data_found
           /\ auto_sync_task = "sleeping"
           /\ wake = After(lastOp.at[1], lastOp.at[2], 300)

---------------------------------------------------------------------------
(* Claims on the scheduler's use of the Syncer, under SpecScheduler *)

\* C12: a loop pass calls the Syncer only at a due instant, in real mode and
\* with no real row for today, and then exactly once for 1 day in real
\* mode; a due pass in example mode makes no call and leaves the flag false;
\* a due pass that finds today's real row sets the flag without a call; after
\* a call the flag is true only if the call succeeded and today's row exists.
C12_SyncerCallDiscipline ==
    [][LoopPass =>
        LET d == lastOp'.at[1]
            calls == lastOp'.calls
            had_today == d \in DOMAIN sleep_data
            example_mode == user_settings.use_dummy_data
        IN  /\ calls # <<>> =>
                /\ should_run_sync_now(lastOp'.at[2]).should_run
                /\ ~example_mode
                /\ ~had_today
                /\ Len(calls) = 1
                /\ calls[1].days = 1
                /\ ~calls[1].use_dummy_data
                /\ today_data_found' => (calls[1].success /\ d \in DOMAIN sleep_data')
            /\ (lastOp'.due /\ example_mode) => (calls = <<>> /\ ~today_data_found')
            /\ (lastOp'.due /\ ~example_mode /\ had_today) =>
                   (calls = <<>> /\ today_data_found')
      ]_vars

\* A pass called the Syncer, the call succeeded, and the flag is now set.
C12_Witness ==
    /\ lastOp.kind = "auto_sync_loop"
    /\ lastOp.calls # <<>>
    /\ lastOp.calls[1].success
    /\ today_data_found

---------------------------------------------------------------------------
(* The due-check and the first pass of the scheduler at every second of the
   day *)

InitBand ==
    /\ today = 0
    /\ clock \in 0..(DaySeconds - 1)
    /\ sleep_data = EmptyTable
    /\ example_sleep_data = EmptyTable
    /\ user_settings = [target_sleep_hours |-> 8000, stats_window_days |-> 10,
                        use_dummy_data |-> FALSE]
    /\ last_sync = <<>>
    /\ garmin = [d \in {0} |-> 7200]
    /\ auto_sync_enabled = TRUE
    /\ auto_sync_task = "none"
    /\ loop_tasks = 0
    /\ cancel_requested = FALSE
    /\ wake = <<0, 0>>
    /\ today_data_found = FALSE
    /\ last_check_date = NoDate
    /\ lastOp = [kind |-> "init"]

NextBand ==
    \/ get_auto_sync_status
    \/ StartAutoSync
    \/ SchedulerStarts

SpecBand == InitBand /\ [][NextBand]_vars

OffBand(t) == t < Time(7, 0) \/ t > Time(13, 0)

\* C13: at every time of day before 07:00 or after 13:00 the due-check says
\* not due, and a loop pass at such a time makes no Syncer call.
C13_NothingOffBand ==
    /\ (lastOp.kind = "get_auto_sync_status" /\ OffBand(clock)) => ~lastOp.should_run_now
    /\ (lastOp.kind = "auto_sync_loop" /\ OffBand(lastOp.at[2])) =>
           (~lastOp.due /\ lastOp.calls = <<>>)

\* A loop pass three minutes before 07:00, within the tolerance of the first
\* instant, that made no call.
C13_Witness ==
    /\ lastOp.kind = "auto_sync_loop"
    /\ lastOp.at[2] = Time(6, 57)
    /\ lastOp.calls = <<>>
    /\ ~today_data_found

---------------------------------------------------------------------------
(* Claims on the validation of PUT /api/settings, under SpecSettings *)

\* C14: an update whose target_sleep_hours is not positive or whose
\* stats_window_days is below 1 is answered with the validation error, with
\* no Syncer call, and leaves the settings, both tables and the last-sync
\* timestamp as they were.
C14_InvalidRejected ==
    [][(/\ lastOp'.kind = "update_settings"
        /\ \/ lastOp'.request.target_sleep_hours <= 0
           \/ lastOp'.request.stats_window_days < 1)
        => /\ lastOp'.status = 400
           /\ lastOp'.error = "validation"
           /\ lastOp'.calls = <<>>
           /\ UNCHANGED <<user_settings, sleep_data, example_sleep_data, last_sync>>
      ]_vars

\* An update asking for example data over a window of 0 days was rejected
\* while the example table was empty.
C14_Witness ==
    /\ lastOp.kind = "update_settings"
    /\ lastOp.request.stats_window_days < 1
    /\ lastOp.request.use_dummy_data
    /\ lastOp.error = "validation"
    /\ example_sleep_data = EmptyTable

---------------------------------------------------------------------------
(* The Syncer on its own: sync_sleep_data called with any window and mode *)

\* Windows a caller asks for
SyncDays == {1, 3, 7}

\* What Garmin holds: nothing, the last five days, or the last five days
\* with today's night not yet published (duration 0)
SyncUpstreams ==
    {EmptyTable,
     [d \in (-4)..0 |-> GarminSleep(d)],
     [d \in (-4)..0 |-> IF d >= -1 THEN 0 ELSE GarminSleep(d)]}

\* A call sync_sleep_data(days, use_dummy_data) against the store
SyncerCall ==
    \E days \in SyncDays, use_dummy_data \in BOOLEAN, seed \in Seeds :
      \E oc \in SyncOutcomes(days) :
        LET result == sync_sleep_data(days, use_dummy_data, sleep_data, example_sleep_data,
                                      TARGET_SLEEP_HOURS, today, garmin, oc, seed)
        IN  /\ sleep_data' = result.real
            /\ example_sleep_data' = result.example
            /\ lastOp' = [kind |-> "sync_sleep_data", days |-> days,
                          use_dummy_data |-> use_dummy_data, outcome |-> oc,
                          success |-> result.success,
                          records_synced |-> result.records_synced,
                          message |-> result.message,
                          used_dummy_data |-> result.used_dummy_data]
            /\ UNCHANGED <<today, clock, user_settings, last_sync, garmin, schedVars>>

InitSyncer ==
    /\ today = 0
    /\ clock = Time(14, 0)
    /\ sleep_data \in {EmptyTable, History(-2, 0), [d \in {-6, 0} |-> Row(6000, 7500)]}
    /\ example_sleep_data \in {EmptyTable, generate_dummy_sleep_data(3, 0, 8000, 0)}
    /\ user_settings \in {[target_sleep_hours |-> t, stats_window_days |-> 7,
                           use_dummy_data |-> FALSE] : t \in TargetChoices}
    /\ last_sync = <<>>
    /\ garmin \in SyncUpstreams
    /\ auto_sync_enabled = TRUE
    /\ auto_sync_task = "none"
    /\ loop_tasks = 0
    /\ cancel_requested = FALSE
    /\ wake = <<0, 0>>
    /\ today_data_found = FALSE
    /\ last_check_date = NoDate
    /\ lastOp = [kind |-> "init"]

NextSyncer == SyncerCall \/ delete_all_data

SpecSyncer == InitSyncer /\ [][NextSyncer]_vars

\* Garmin has no positive duration for any of the `days` dates up to today
NoRecords(days) ==
    \A i \in 0..(days - 1) : (today - i) \notin DOMAIN garmin \/ garmin[today - i] <= 0

C16_PartitionsIndependent ==
    [][lastOp'.kind = "sync_sleep_data" =>
        /\ lastOp'.use_dummy_data => UNCHANGED sleep_data
        /\ ~lastOp'.use_dummy_data => UNCHANGED example_sleep_data
        /\ DOMAIN sleep_data \subseteq DOMAIN sleep_data'
        /\ DOMAIN example_sleep_data \subseteq DOMAIN example_sleep_data'
        /\ Cardinality(DOMAIN sleep_data') + Cardinality(DOMAIN example_sleep_data')
             <= Cardinality(DOMAIN sleep_data) + Cardinality(DOMAIN example_sleep_data)
                  + lastOp'.records_synced
      ]_vars

\* An example-mode call has just written today's example row while the real
\* table holds a different row for today.
C16_Witness ==
    /\ lastOp.kind = "sync_sleep_data"
    /\ lastOp.use_dummy_data
    /\ lastOp.success
    /\ today \in DOMAIN sleep_data
    /\ today \in DOMAIN example_sleep_data
    /\ sleep_data[today] # example_sleep_data[today]

---------------------------------------------------------------------------
(* The window count on stores with rows in the future and in the far past *)

\* Longest window asked for, and how far past today rows may be dated
MaxWindow == 5
MaxAhead == 2

\* Dates a row may carry: around today, after today, and one long before
WindowDates == ((0 - MaxWindow)..MaxAhead) \cup {0 - 40}

\* A call count_available_days_in_window(window_days, include_example)
count_available_days ==
    \E window_days \in 1..MaxWindow, include_example \in BOOLEAN :
        /\ lastOp' = [kind |-> "count_available_days_in_window",
                      window_days |-> window_days,
                      include_example |-> include_example,
                      result |-> count_available_days_in_window(
                                     Selected(sleep_data, example_sleep_data, include_example),
                                     today, window_days)]
        /\ UNCHANGED <<today, clock, storeVars, schedVars>>

InitWindow ==
    /\ today \in {0 - 1, 0}
    /\ clock = Time(14, 0)
    /\ sleep_data \in {[d \in D |-> Row(7000, 8000)] : D \in SUBSET WindowDates}
    /\ example_sleep_data \in {EmptyTable, [d \in (0 - 2)..1 |-> Row(9000, 8000)]}
    /\ user_settings = [target_sleep_hours |-> 8000, stats_window_days |-> 7,
                        use_dummy_data |-> FALSE]
    /\ last_sync = <<>>
    /\ garmin = EmptyTable
    /\ auto_sync_enabled = TRUE
    /\ auto_sync_task = "none"
    /\ loop_tasks = 0
    /\ cancel_requested = FALSE
    /\ wake = <<0, 0>>
    /\ today_data_found = FALSE
    /\ last_check_date = NoDate
    /\ lastOp = [kind |-> "init"]

\* The dates of S from the latest to the earliest (ORDER BY date DESC)
RECURSIVE Descending(_)
Descending(S) ==
    IF S = {} THEN <<>>
    ELSE LET latest == CHOOSE d \in S : \A e \in S : e <= d
         IN  <<latest>> \o Descending(S \ {latest})

\* A read over the limit days up to today whether or not today has a row: a
\* variant for comparison.
read_including_today(table, day, limit, include_example) ==
    LET dates == Descending({d \in DOMAIN table : d >= day - (limit - 1) /\ d <= day})
    IN  [i \in 1..Len(dates) |->
            [date |-> dates[i], sleep_hours |-> table[dates[i]].sleep_hours,
             target_hours |-> table[dates[i]].target_hours, debt |-> table[dates[i]].debt,
             is_example |-> include_example]]

\* read_sleep_data(limit, include_example) on the table include_example
\* selects: the rows of the window, latest first
read_sleep_data(table, day, limit, include_example) ==
    LET today_exists == day \in DOMAIN table
        window_start == IF today_exists THEN day - (limit - 1) ELSE day - limit
        window_end   == IF today_exists THEN day ELSE day - 1
        dates == Descending({d \in DOMAIN table : d >= window_start /\ d <= window_end})
    IN  [i \in 1..Len(dates) |->
            [date |-> dates[i], sleep_hours |-> table[dates[i]].sleep_hours,
             target_hours |-> table[dates[i]].target_hours, debt |-> table[dates[i]].debt,
             is_example |-> include_example]]

\* The three window queries asked of the same store: the count for window_days,
\* the statistics with stats_window = window_days, and the read with
\* limit = window_days
window_queries ==
    \E window_days \in 1..MaxWindow, include_example \in BOOLEAN :
        LET table == Selected(sleep_data, example_sleep_data, include_example)
        IN  /\ lastOp' = [kind |-> "window_queries",
                          window_days |-> window_days,
                          include_example |-> include_example,
                          available_days |->
                              count_available_days_in_window(table, today, window_days),
                          days_tracked |->
                              get_sleep_statistics(table, today, window_days).days_tracked,
                          records |->
                              read_sleep_data(table, today, window_days, include_example)]
            /\ UNCHANGED <<today, clock, storeVars, schedVars>>

NextWindow == count_available_days \/ window_queries

SpecWindow == InitWindow /\ [][NextWindow]_vars

\* C17: whatever the store holds, rows dated after today or long before it
\* included, the count of available days in a window of N days is at most N.
C17_CountWithinWindow ==
    lastOp.kind = "count_available_days_in_window" =>
        (lastOp.result >= 0 /\ lastOp.result <= lastOp.window_days)

\* The count reached the window length on a real table that also holds rows
\* after today and a row 40 days back.
C17_Witness ==
    /\ lastOp.kind = "count_available_days_in_window"
    /\ ~lastOp.include_example
    /\ lastOp.window_days > 1
    /\ lastOp.result = lastOp.window_days
    /\ today + 1 \in DOMAIN sleep_data
    /\ (0 - 40) \in DOMAIN sleep_data

---------------------------------------------------------------------------
(* Claims on an empty statistics window, under SpecStatistics *)

\* The dates of the selected table inside the statistics window
SelectedWindow ==
    LET table == Selected(sleep_data, example_sleep_data, user_settings.use_dummy_data)
        N == user_settings.stats_window_days
    IN  IF today \in DOMAIN table
        THEN {d \in DOMAIN table : today - (N - 1) <= d /\ d <= today}
        ELSE {d \in DOMAIN table : today - N <= d /\ d <= today - 1}

\* C18: when the selected table has no row inside the statistics window,
\* the status query answers with total sleep 0, total target 0, debt 0 and 0
\* days tracked, whatever the other table and the rows outside the window
\* hold.
C18_EmptyWindowZero ==
    (lastOp.kind = "get_sleep_status" /\ SelectedWindow = {})
        => /\ lastOp.total_sleep_hours = 0
           /\ lastOp.target_sleep_hours = 0
           /\ lastOp.current_debt = 0
           /\ lastOp.days_tracked = 0
           /\ ~lastOp.has_today_data

\* The query found nothing in the real table's window while that table has
\* older rows and the example table has rows inside the window.
C18_Witness ==
    /\ lastOp.kind = "get_sleep_status"
    /\ ~user_settings.use_dummy_data
    /\ SelectedWindow = {}
    /\ sleep_data # EmptyTable
    /\ (today - 1) \in DOMAIN example_sleep_data
    /\ lastOp.days_tracked = 0

---------------------------------------------------------------------------
(* calculate_sleep_debt on lists of records *)

\* The keys a record may carry
RecordKeys == {"sleep_hours", "target_hours", "debt"}

\* record.get(key, default)
Get(record, key, default) == IF key \in record.keys THEN record[key] ELSE default

RECURSIVE SumSeq(_)
SumSeq(xs) == IF xs = <<>> THEN 0 ELSE Head(xs) + SumSeq(Tail(xs))

\* calculate_sleep_debt(sleep_data): 0 for the empty list; the sum of the
\* 'debt' entries (0 where a record has none) when the first record has one;
\* else the sum of calculate_daily_debt over sleep_hours (default 0) and
\* target_hours (default TARGET_SLEEP_HOURS()).
calculate_sleep_debt(records) ==
    IF records = <<>>
    THEN 0
    ELSE IF "debt" \in records[1].keys
    THEN SumSeq([i \in 1..Len(records) |-> Get(records[i], "debt", 0)])
    ELSE SumSeq([i \in 1..Len(records) |->
                    calculate_daily_debt(Get(records[i], "sleep_hours", 0),
                                         Get(records[i], "target_hours",
                                             TARGET_SLEEP_HOURS))])

\* Longest list of records
MaxRecords == 2

\* Records as the program builds them: a 'debt' entry, where present, is
\* target_hours - sleep_hours; an absent entry is written 0 here and never
\* read.
SampleRecords ==
    {[keys |-> k,
      sleep_hours  |-> IF "sleep_hours" \in k THEN sl ELSE 0,
      target_hours |-> IF "target_hours" \in k THEN 7500 ELSE 0,
      debt         |-> IF "debt" \in k THEN 7500 - sl ELSE 0]
        : k \in SUBSET RecordKeys, sl \in {7000, 9000}}

RecordLists == UNION {[1..n -> SampleRecords] : n \in 0..MaxRecords}

\* A call calculate_sleep_debt(records)
calculate_debt ==
    \E records \in RecordLists :
        /\ lastOp' = [kind |-> "calculate_sleep_debt", records |-> records,
                      result |-> calculate_sleep_debt(records)]
        /\ UNCHANGED <<today, clock, storeVars, schedVars>>

InitDebt ==
    /\ today = 0
    /\ clock = Time(14, 0)
    /\ sleep_data = EmptyTable
    /\ example_sleep_data = EmptyTable
    /\ user_settings \in {[target_sleep_hours |-> t, stats_window_days |-> 7,
                           use_dummy_data |-> FALSE] : t \in TargetChoices}
    /\ last_sync = <<>>
    /\ garmin = EmptyTable
    /\ auto_sync_enabled = TRUE
    /\ auto_sync_task = "none"
    /\ loop_tasks = 0
    /\ cancel_requested = FALSE
    /\ wake = <<0, 0>>
    /\ today_data_found = FALSE
    /\ last_check_date = NoDate
    /\ lastOp = [kind |-> "init"]

NextDebt == calculate_debt

SpecDebt == InitDebt /\ [][NextDebt]_vars

\* C19: the debt of a day is target minus sleep, negative values kept, and
\* the cumulative debt of a list of records that carry sleep_hours and
\* target_hours is the sum of their daily debts.
C19_DebtIdentity ==
    /\ \A sl \in {0, 7000, 9000}, t \in {7500, 8000} :
           calculate_daily_debt(sl, t) = t - sl
    /\ (/\ lastOp.kind = "calculate_sleep_debt"
        /\ \A i \in 1..Len(lastOp.records) :
               {"sleep_hours", "target_hours"} \subseteq lastOp.records[i].keys)
        => lastOp.result =
             SumSeq([i \in 1..Len(lastOp.records) |->
                        calculate_daily_debt(lastOp.records[i].sleep_hours,
                                             lastOp.records[i].target_hours)])

---------------------------------------------------------------------------
(* Stopping the scheduler.  task.cancel() makes the event loop resume the
   task with CancelledError at its next turn, and a created task gets its
   first turn: both are fair. *)

SpecStop ==
    /\ InitFaults
    /\ [][NextFaults]_vars
    /\ WF_vars(SchedulerCancelled)
    /\ WF_vars(SchedulerStarts)

\* The steps in which the loop runs
LoopKinds == {"auto_sync_loop", "auto_sync_loop_fault", "auto_sync_loop_exit",
              "auto_sync_cancelled"}

\* C20: the loop ends only after stop_auto_sync; a stop issued while the
\* loop sleeps cancels the wait, no pass runs while the cancellation is
\* pending, and the task ends; while the task stays ended there is no Syncer
\* call and no change to the flag, the last checked date or the store.
C20_StopEndsLoop ==
    /\ [][(auto_sync_task # "done" /\ auto_sync_task' = "done") => ~auto_sync_enabled]_vars
    /\ [][(lastOp'.kind = "stop_auto_sync" /\ auto_sync_task = "sleeping")
            => cancel_requested']_vars
    /\ [][(auto_sync_task = "sleeping" /\ cancel_requested /\ lastOp'.kind \in LoopKinds)
            => (lastOp'.kind = "auto_sync_cancelled" /\ auto_sync_task' = "done")]_vars
    /\ [][(auto_sync_task = "done" /\ auto_sync_task' = "done")
            => /\ UNCHANGED <<today_data_found, last_check_date, storeVars>>
               /\ lastOp'.kind \notin LoopKinds]_vars
    /\ (auto_sync_task = "sleeping" /\ ~auto_sync_enabled) ~> (auto_sync_task = "done")

\* The task ended by cancellation of a wait that followed a Syncer call.
C20_Witness ==
    /\ auto_sync_task = "done"
    /\ lastOp.kind = "auto_sync_cancelled"
    /\ ~auto_sync_enabled
    /\ last_check_date # NoDate
    /\ sleep_data # EmptyTable

---------------------------------------------------------------------------
(* Claims on the number of scheduler loops, under SpecFaults *)

\* C21: whatever starts and stops were called, at most one loop task is
\* alive, it is the one _auto_sync_task refers to, and start_auto_sync called
\* while a loop is alive creates no task.
C21_SingleLoop ==
    /\ [](loop_tasks <= 1)
    /\ []((loop_tasks = 1) <=> (auto_sync_task \in {"created", "sleeping"}))
    /\ [][(lastOp'.kind = "start_auto_sync" /\ loop_tasks = 1)
            => (loop_tasks' = 1 /\ auto_sync_task' = auto_sync_task)]_vars

\* start_auto_sync was called while the loop slept and started nothing.
C21_Witness ==
    /\ lastOp.kind = "start_auto_sync"
    /\ ~lastOp.started
    /\ auto_sync_task = "sleeping"
    /\ loop_tasks = 1

---------------------------------------------------------------------------
(* The process as uvicorn runs it: the lifespan startup, then the HTTP
   handlers.  Nothing in the application calls start_auto_sync. *)

\* lifespan(app) up to its yield: init_database() creates the missing tables
\* and migrate_settings_from_env() stores the settings already in effect
lifespan ==
    /\ lastOp.kind = "init"
    /\ lastOp' = [kind |-> "lifespan_startup"]
    /\ UNCHANGED <<today, clock, storeVars, schedVars>>

\* POST /api/sleep/sync in example mode when sync_sleep_data raises (a failed
\* statement of write_sleep_batch, which DuckDB rolls back): the handler's
\* except clause answers without set_last_sync_time.
sync_sleep_raising ==
    /\ user_settings.use_dummy_data
    /\ lastOp' = [kind |-> "sync_sleep", success |-> FALSE, records_synced |-> 0,
                  last_sync |-> IF last_sync = <<>> THEN <<today>> ELSE last_sync,
                  used_dummy_data |-> FALSE, calls |-> <<>>]
    /\ UNCHANGED <<today, clock, storeVars, schedVars>>

InitProcess ==
    /\ today = 0
    /\ clock = Time(14, 0)
    /\ sleep_data \in {EmptyTable, History(-9, -1)}
    /\ example_sleep_data \in {EmptyTable, generate_dummy_sleep_data(3, 0, 8000, 0)}
    /\ user_settings \in {[target_sleep_hours |-> 8000, stats_window_days |-> 10,
                           use_dummy_data |-> u] : u \in BOOLEAN}
    /\ last_sync \in {<<>>, <<0 - 1>>}
    /\ garmin \in Upstreams
    /\ auto_sync_enabled = TRUE
    /\ auto_sync_task = "none"
    /\ loop_tasks = 0
    /\ cancel_requested = FALSE
    /\ wake = <<0, 0>>
    /\ today_data_found = FALSE
    /\ last_check_date = NoDate
    /\ lastOp = [kind |-> "init"]

\* Requests are served once the startup has completed
Serving == lastOp.kind # "init"

NextProcess ==
    \/ lifespan
    \/ Serving /\ sync_sleep
    \/ Serving /\ sync_sleep_raising
    \/ Serving /\ get_sleep_status
    \/ Serving /\ delete_all_data
    \/ Serving /\ update_target

SpecProcess == InitProcess /\ [][NextProcess]_vars

\* C22: once the startup has completed the scheduler loop is alive, as one
\* task.
C22_LoopRunsAfterStartup ==
    Serving => (auto_sync_task \in {"created", "sleeping"} /\ loop_tasks = 1)

\* C23: the stored last-sync timestamp changes only in a manual sync whose
\* Syncer result has success true, and then to that result's timestamp; a
\* manual sync that failed or raised leaves it as it was.
C23_LastSyncOnlyOnSuccess ==
    /\ [][last_sync' # last_sync
            => (lastOp'.kind = "sync_sleep" /\ lastOp'.success
                /\ last_sync' = lastOp'.last_sync)]_vars
    /\ [][(lastOp'.kind = "sync_sleep" /\ ~lastOp'.success) => UNCHANGED last_sync]_vars

\* A manual sync failed while a timestamp from the day before was stored.
C23_Witness ==
    /\ lastOp.kind = "sync_sleep"
    /\ ~lastOp.success
    /\ last_sync = <<0 - 1>>

---------------------------------------------------------------------------
(* The recalculation sweep when the update of some rows raises *)

\* One table's pass in which the rows dated in `failed` raise inside the
\* inner try: they are skipped and keep their values, and are not counted.
RecalculateTableSkipping(table, target_hours, failed) ==
    [d \in DOMAIN table |->
        IF d \in failed
        THEN table[d]
        ELSE [sleep_hours  |-> table[d].sleep_hours,
              target_hours |-> target_hours,
              debt         |-> target_hours - table[d].sleep_hours]]

\* A sweep that gives a table up at its first failing row, in date order: a
\* variant for comparison.
recalculate_aborting(real, example, target_hours, failed_real, failed_example) ==
    LET before(table, failed) ==
            {d \in DOMAIN table : \A f \in failed \cap DOMAIN table : d < f}
        pass(table, failed) ==
            RecalculateTableSkipping(table, target_hours, DOMAIN table \ before(table, failed))
    IN  [real          |-> pass(real, failed_real),
         example       |-> pass(example, failed_example),
         total_updated |-> Cardinality(before(real, failed_real))
                             + Cardinality(before(example, failed_example))]

\* recalculate_debt_for_all_records(target_hours) when the rows in
\* failed_real and failed_example raise: both tables are swept, and the count
\* is that of the rows updated.
recalculate_debt_skipping(real, example, target_hours, failed_real, failed_example) ==
    [real          |-> RecalculateTableSkipping(real, target_hours, failed_real),
     example       |-> RecalculateTableSkipping(example, target_hours, failed_example),
     total_updated |-> Cardinality(DOMAIN real \ failed_real)
                         + Cardinality(DOMAIN example \ failed_example)]

\* Targets a sweep is run for, and how many rows of a table may fail in one
\* sweep
SweepTargets == {7500, 8000, 8500}
MaxFailures == 1

FailureSets(table) == {F \in SUBSET DOMAIN table : Cardinality(F) <= MaxFailures}

\* A call recalculate_debt_for_all_records(target_hours)
recalculate ==
    \E target_hours \in SweepTargets :
      \E failed_real \in FailureSets(sleep_data),
         failed_example \in FailureSets(example_sleep_data) :
        LET swept == recalculate_debt_skipping(sleep_data, example_sleep_data, target_hours,
                                               failed_real, failed_example)
        IN  /\ sleep_data' = swept.real
            /\ example_sleep_data' = swept.example
            /\ lastOp' = [kind |-> "recalculate_debt_for_all_records",
                          target_hours |-> target_hours,
                          failed_real |-> failed_real,
                          failed_example |-> failed_example,
                          total_updated |-> swept.total_updated]
            /\ UNCHANGED <<today, clock, user_settings, last_sync, garmin, schedVars>>

InitSweep ==
    /\ today = 0
    /\ clock = Time(14, 0)
    /\ sleep_data \in {EmptyTable, History(-2, 0)}
    /\ example_sleep_data \in {EmptyTable, generate_dummy_sleep_data(2, 0, 8000, 0)}
    /\ user_settings = [target_sleep_hours |-> 8000, stats_window_days |-> 7,
                        use_dummy_data |-> FALSE]
    /\ last_sync = <<>>
    /\ garmin = EmptyTable
    /\ auto_sync_enabled = TRUE
    /\ auto_sync_task = "none"
    /\ loop_tasks = 0
    /\ cancel_requested = FALSE
    /\ wake = <<0, 0>>
    /\ today_data_found = FALSE
    /\ last_check_date = NoDate
    /\ lastOp = [kind |-> "init"]

NextSweep == recalculate

SpecSweep == InitSweep /\ [][NextSweep]_vars

\* The row a sweep for target_hours makes of row
Swept(row, target_hours) ==
    [sleep_hours |-> row.sleep_hours, target_hours |-> target_hours,
     debt |-> target_hours - row.sleep_hours]

\* C24: in a sweep, a row whose update fails keeps its values, every other
\* row of both tables gets the new target and its debt, and the count
\* returned is the number of rows updated in the two tables.
C24_SweepSkipsFailures ==
    [][lastOp'.kind = "recalculate_debt_for_all_records" =>
        /\ DOMAIN sleep_data' = DOMAIN sleep_data
        /\ DOMAIN example_sleep_data' = DOMAIN example_sleep_data
        /\ \A d \in DOMAIN sleep_data :
              sleep_data'[d] = IF d \in lastOp'.failed_real
                               THEN sleep_data[d]
                               ELSE Swept(sleep_data[d], lastOp'.target_hours)
        /\ \A d \in DOMAIN example_sleep_data :
              example_sleep_data'[d] = IF d \in lastOp'.failed_example
                                       THEN example_sleep_data[d]
                                       ELSE Swept(example_sleep_data[d], lastOp'.target_hours)
        /\ lastOp'.total_updated =
              Cardinality(DOMAIN sleep_data \ lastOp'.failed_real)
                + Cardinality(DOMAIN example_sleep_data \ lastOp'.failed_example)
      ]_vars

\* A sweep in which the first real row failed: it kept its old target and
\* the rows after it, and the example rows, were updated.
C24_Witness ==
    /\ lastOp.kind = "recalculate_debt_for_all_records"
    /\ lastOp.target_hours = 7500
    /\ lastOp.failed_real = {0 - 2}
    /\ lastOp.failed_example = {}
    /\ lastOp.total_updated = 4
    /\ sleep_data[0 - 2].target_hours = 8000
    /\ sleep_data[0].target_hours = 7500
    /\ example_sleep_data[0].target_hours = 7500

---------------------------------------------------------------------------
(* Claims on the syncs of a settings update, under SpecSettings *)

\* The step is a settings update that passed the validation of its request
UpdateStep == lastOp'.kind = "update_settings" /\ lastOp'.error # "validation"

\* C25: a settings update that finds fewer available days than the requested
\* window, and fewer real days than it, first calls the Syncer in real mode
\* for the window (one day more when today has no data), whether the request
\* asks for example data or not.
C25_ForcedRealSync ==
    [][UpdateStep =>
        LET req == lastOp'.request
            c == settings_checks(req)
        IN  (c.available_days < req.stats_window_days
             /\ c.total_real_days < req.stats_window_days)
                => /\ Len(lastOp'.calls) >= 1
                   /\ ~lastOp'.calls[1].use_dummy_data
                   /\ lastOp'.calls[1].days =
                         days_to_sync(req.stats_window_days,
                                      has_today_data(sleep_data, example_sleep_data,
                                                     req.use_dummy_data))
      ]_vars

---------------------------------------------------------------------------
(* The settings update on its own: any request, over tables that are empty,
   stale or current, with the faults of its last steps *)

\* What Garmin holds: the two weeks up to yesterday, or the last four days
OrchestratorUpstreams == {[d \in D |-> GarminSleep(d)] : D \in {-14..-1, -3..0}}

\* Requests of PUT /api/settings: a target equal to the one in force, within
\* the tolerance of it, or away from it
OrchestratorRequests ==
    [target_sleep_hours : {7500, 8000, 8001}, stats_window_days : {2, 7, 14},
     use_dummy_data : BOOLEAN]

InitOrchestrator ==
    /\ today = 0
    /\ clock = Time(14, 0)
    /\ sleep_data \in {EmptyTable, History(-20, -8), History(-6, 0)}
    /\ example_sleep_data \in {EmptyTable, generate_dummy_sleep_data(7, 0, 8000, 0)}
    /\ user_settings \in [target_sleep_hours : {8000}, stats_window_days : {7},
                          use_dummy_data : BOOLEAN]
    /\ last_sync = <<>>
    /\ garmin \in OrchestratorUpstreams
    /\ auto_sync_enabled = TRUE
    /\ auto_sync_task = "none"
    /\ loop_tasks = 0
    /\ cancel_requested = FALSE
    /\ wake = <<0, 0>>
    /\ today_data_found = FALSE
    /\ last_check_date = NoDate
    /\ lastOp = [kind |-> "init"]

\* PUT /api/settings, with what can go wrong in its last steps: one call
\* from each starting store
update_settings_faulting ==
    /\ lastOp.kind = "init"
    /\ \E req \in OrchestratorRequests, faults \in SUBSET UpdateFaults :
          put_settings(req, 0, faults)

NextOrchestrator == update_settings_faulting

SpecOrchestrator == InitOrchestrator /\ [][NextOrchestrator]_vars

\* The steps of an update that set has_synced when their sync succeeds
MarkingSteps == {"force", "transition", "stale_example"}

C27_NoSyncWhenRealDataSuffices ==
    [][UpdateStep =>
        LET req == lastOp'.request
            c == settings_checks(req)
        IN  (/\ ~user_settings.use_dummy_data
             /\ ~req.use_dummy_data
             /\ c.available_days < req.stats_window_days
             /\ c.total_real_days >= req.stats_window_days)
                => \A i \in 1..Len(lastOp'.calls) : lastOp'.calls[i].use_dummy_data
      ]_vars

\* C28: in an update with use_dummy_data false, the example rows of the
\* requested window cause no Syncer call: no call comes from the block that
\* looks for them.
C28_StaleExampleOnlyLogged ==
    (lastOp.kind = "update_settings" /\ ~lastOp.request.use_dummy_data)
        => \A i \in 1..Len(lastOp.steps) : lastOp.steps[i] # "stale_example"

\* C29: a settings update that reaches its last steps sweeps the tables if
\* and only if the requested target is more than 0.001 away from the target
\* in force before; the sweep rewrites every row of both tables for the new
\* target, and when it fails the update still succeeds with the requested
\* settings stored.
C29_SweepIffTargetChanged ==
    (lastOp.kind = "update_settings" /\ lastOp.status = 200)
        => LET T == lastOp.request.target_sleep_hours
               changed == Abs(T - lastOp.current_target_hours) > 1
               kept == /\ sleep_data = lastOp.written.real
                       /\ example_sleep_data = lastOp.written.example
               swept(table, before) ==
                   /\ DOMAIN table = DOMAIN before
                   /\ \A d \in DOMAIN table : table[d] = Swept(before[d], T)
           IN  /\ user_settings = lastOp.response
               /\ user_settings.target_sleep_hours = T
               /\ ~changed => (kept /\ lastOp.records_updated = 0)
               /\ (changed /\ "recalculate" \notin lastOp.faults)
                     => /\ swept(sleep_data, lastOp.written.real)
                        /\ swept(example_sleep_data, lastOp.written.example)
                        /\ lastOp.records_updated =
                              Cardinality(DOMAIN sleep_data)
                                + Cardinality(DOMAIN example_sleep_data)
               /\ (changed /\ "recalculate" \in lastOp.faults) => kept

\* An update to a new target whose sweep failed: it succeeded, the new target
\* is stored, and rows of both tables are still at the old one.
C29_Witness ==
    /\ lastOp.kind = "update_settings"
    /\ lastOp.status = 200
    /\ "recalculate" \in lastOp.faults
    /\ lastOp.current_target_hours = 8000
    /\ user_settings.target_sleep_hours = 7500
    /\ \E d \in DOMAIN sleep_data : sleep_data[d].target_hours = 8000
    /\ \E d \in DOMAIN example_sleep_data : example_sleep_data[d].target_hours = 8000

\* C30: an update that asks for example data calls the Syncer in example
\* mode for max(3, window) days as its last call; whether or not that
\* generation fails, the update succeeds and stores the requested settings,
\* and it never ends with the insufficient-data error.
C30_ExampleGenerationBestEffort ==
    (lastOp.kind = "update_settings" /\ lastOp.error # "validation"
     /\ lastOp.request.use_dummy_data)
        => LET n == Len(lastOp.calls)
           IN  /\ n >= 1
               /\ lastOp.steps[n] = "example"
               /\ lastOp.calls[n].use_dummy_data
               /\ lastOp.calls[n].days = Max(3, lastOp.request.stats_window_days)
               /\ "generate" \notin lastOp.faults
                     => (lastOp.calls[n].success
                         /\ lastOp.calls[n].records_synced = lastOp.calls[n].days)
               /\ lastOp.error # "insufficient_data"
               /\ lastOp.status = 200
               /\ user_settings = lastOp.request

\* An update asking for example data over a window of 2 days whose
\* generation, asked for 3 days, failed: no example row was written, and the
\* update succeeded with the settings stored.
C30_Witness ==
    /\ lastOp.kind = "update_settings"
    /\ lastOp.request.use_dummy_data
    /\ lastOp.request.stats_window_days = 2
    /\ "generate" \in lastOp.faults
    /\ lastOp.calls = <<[days |-> 3, use_dummy_data |-> TRUE, success |-> FALSE,
                         records_synced |-> 0]>>
    /\ example_sleep_data = EmptyTable
    /\ lastOp.status = 200
    /\ user_settings = lastOp.request

---------------------------------------------------------------------------
(* Claim on the agreement of the window queries, under SpecWindow *)

\* C31: on every store, for either table and every window length N, the
\* count of available days for N, the days_tracked of the statistics with a
\* configured window of N and the number of records the read returns for N
\* are equal, and the records read are the rows of that one window.
C31_WindowQueriesAgree ==
    lastOp.kind = "window_queries" =>
        LET table == Selected(sleep_data, example_sleep_data, lastOp.include_example)
            N == lastOp.window_days
            window == IF today \in DOMAIN table
                      THEN {d \in DOMAIN table : today - (N - 1) <= d /\ d <= today}
                      ELSE {d \in DOMAIN table : today - N <= d /\ d <= today - 1}
        IN  /\ lastOp.available_days = lastOp.days_tracked
            /\ lastOp.available_days = Len(lastOp.records)
            /\ lastOp.available_days = Cardinality(window)
            /\ {lastOp.records[i].date : i \in 1..Len(lastOp.records)} = window

\* The three queries agreed on a real table without a row for today but with
\* a row N days back and rows after today: today was left out by all three.
C31_Witness ==
    /\ lastOp.kind = "window_queries"
    /\ ~lastOp.include_example
    /\ today \notin DOMAIN sleep_data
    /\ today - lastOp.window_days \in DOMAIN sleep_data
    /\ today + 1 \in DOMAIN sleep_data
    /\ lastOp.window_days > 1
    /\ lastOp.available_days = lastOp.window_days
    /\ Len(lastOp.records) = lastOp.window_days

---------------------------------------------------------------------------
(* Claim on lists where only some records carry a debt, under SpecDebt *)

\* C32: the cumulative debt of a list of records that carry sleep_hours and
\* target_hours adds, record by record, the stored debt where the record has
\* one and target_hours - sleep_hours of that record where it has none.
C32_PerRecordFallback ==
    (/\ lastOp.kind = "calculate_sleep_debt"
     /\ \A i \in 1..Len(lastOp.records) :
            {"sleep_hours", "target_hours"} \subseteq lastOp.records[i].keys)
        => lastOp.result =
             SumSeq([i \in 1..Len(lastOp.records) |->
                        IF "debt" \in lastOp.records[i].keys
                        THEN lastOp.records[i].debt
                        ELSE lastOp.records[i].target_hours
                               - lastOp.records[i].sleep_hours])

---------------------------------------------------------------------------
(* Claim on the waits of the scheduler loop, under SpecFaults *)

\* Seconds from now to the deadline of the loop's pending asyncio.sleep
SecondsUntilWake == (wake[1] - today) * DaySeconds + (wake[2] - clock)

---------------------------------------------------------------------------
(* Claim on the flag and the store, under SpecScheduler *)

\* C34: whenever today_data_found is set, sleep_data holds a row dated
\* last_check_date.
C34_FoundMeansStored ==
    today_data_found => (last_check_date # NoDate /\ last_check_date \in DOMAIN sleep_data)

---------------------------------------------------------------------------
(* Claim on the Syncer calls per sync time, under SpecFaults *)

\* The pass of the loop just made called the Syncer
PassCalled(op) == op.kind = "auto_sync_loop" /\ op.calls # <<>>

\* C35: the scheduler calls the Syncer at most once for each sync time of a
\* day: two passes of the loop, one right after the other on the same date,
\* do not both call it for the same sync time.
C35_OneCallPerSyncTime ==
    [][(PassCalled(lastOp) /\ PassCalled(lastOp') /\ lastOp.at[1] = lastOp'.at[1])
        => should_run_sync_now(lastOp.at[2]).next_sync_time
             # should_run_sync_now(lastOp'.at[2]).next_sync_time
      ]_vars

---------------------------------------------------------------------------
(* The scheduler through one day on which Garmin has today's sleep from the
   start and real data is in use.  The event loop gives a created task its
   first turn and ends every asyncio.sleep: both are fair. *)

InitLive ==
    /\ today = MaxDay
    /\ clock \in {Time(6, 57), Time(7, 0), Time(7, 27), Time(8, 2)}
    /\ sleep_data \in {EmptyTable, History(MaxDay - 2, MaxDay - 1)}
    /\ example_sleep_data = EmptyTable
    /\ user_settings = [target_sleep_hours |-> 8000, stats_window_days |-> 10,
                        use_dummy_data |-> FALSE]
    /\ last_sync = <<>>
    /\ garmin = [d \in {MaxDay} |-> 7200]
    /\ auto_sync_enabled = TRUE
    /\ auto_sync_task = "none"
    /\ loop_tasks = 0
    /\ cancel_requested = FALSE
    /\ wake = <<0, 0>>
    /\ today_data_found = FALSE
    /\ last_check_date = NoDate
    /\ lastOp = [kind |-> "init"]

NextLive ==
    \/ StartAutoSync
    \/ SchedulerStarts
    \/ SchedulerWakes

SpecLive ==
    /\ InitLive
    /\ [][NextLive]_vars
    /\ WF_vars(SchedulerStarts)
    /\ WF_vars(SchedulerWakes)

\* A pass of the loop made a Syncer call that failed
FailedCall ==
    /\ lastOp.kind = "auto_sync_loop"
    /\ \E i \in 1..Len(lastOp.calls) : ~lastOp.calls[i].success

\* C36: with real data in use and Garmin holding today's sleep, a scheduler
\* started before the last sync time of the day, none of whose Syncer calls
\* fails, sets today_data_found on that day.
C36_FoundSameDay ==
    (auto_sync_task = "created")
        ~> ((today_data_found /\ today = MaxDay) \/ FailedCall)

---------------------------------------------------------------------------
(* Claim on the example rows after an update, under SpecOrchestrator *)

\* C37: after a settings update that asked for example data and whose
\* generation succeeded, the example table has a row for today and for every
\* other date of the window stored, the count of available example days for
\* that window is the window, and the statistics over the example table
\* report today's data as present.
C37_ExampleWindowFull ==
    (/\ lastOp.kind = "update_settings"
     /\ lastOp.status = 200
     /\ lastOp.request.use_dummy_data
     /\ "generate" \notin lastOp.faults)
        => LET N == user_settings.stats_window_days
           IN  /\ user_settings.use_dummy_data
               /\ \A d \in (today - (N - 1))..today : d \in DOMAIN example_sleep_data
               /\ count_available_days_in_window(example_sleep_data, today, N) = N
               /\ get_sleep_statistics(example_sleep_data, today, N).has_today_data
               /\ get_sleep_statistics(example_sleep_data, today, N).days_tracked = N

\* An update to a window of 2 days with example data, on empty tables: 3
\* example rows were generated, today's among them, and 2 are counted.
C37_Witness ==
    /\ lastOp.kind = "update_settings"
    /\ lastOp.status = 200
    /\ lastOp.request.use_dummy_data
    /\ "generate" \notin lastOp.faults
    /\ user_settings.stats_window_days = 2
    /\ sleep_data = EmptyTable
    /\ DOMAIN example_sleep_data = (today - 2)..today
    /\ count_available_days_in_window(example_sleep_data, today, 2) = 2

---------------------------------------------------------------------------
(* Claim on a start after a stop, under SpecFaults *)

\* C38: when the last call is start_auto_sync, whatever starts and stops
\* came before it, a scheduler loop is alive that is neither cancelled nor
\* told to leave its while loop.
C38_StartLeavesLoopActive ==
    lastOp.kind = "start_auto_sync"
        => /\ auto_sync_task \in {"created", "sleeping"}
           /\ ~cancel_requested
           /\ auto_sync_enabled

=============================================================================
